---------------------------- MODULE Spec2Model ----------------------------
(***************************************************************************)
(* Model of the sidecar handler: the rule model (config.py), the operation *)
(* planner (engine.py), the operation executor (fsops.py), the host hooks  *)
(* and the options page load (plugin_hooks.py, options.py) and the bulk    *)
(* linker (sidecar_links.py).                                              *)
(*                                                                         *)
(* Strings are sequences of one-character strings, so that str.replace,    *)
(* str.strip, Path.stem/.suffix, fnmatch and JSON escaping are computed    *)
(* character by character.  A path is a sequence of components (each a     *)
(* string); the empty sequence is the filesystem root.  The filesystem is  *)
(* a function from canonical paths to nodes (file, dir, symlink).          *)
(***************************************************************************)
EXTENDS Integers, Sequences, FiniteSets, TLC

VARIABLES
    fs,         \* filesystem: canonical path -> node
    fs0,        \* the filesystem before planning (history)
    srcAudio,   \* plan_sidecar_ops: src_audio_path
    dstAudio,   \* plan_sidecar_ops: dst_audio_path
    rules,      \* the rule set (sequence of SidecarRule records)
    metadata,   \* plan_sidecar_ops: metadata (NoMetadata or a tag -> value map)
    conflict,   \* plan_sidecar_ops: conflict policy
    plan,       \* result of plan_sidecar_ops: [status, ops, err]
    ops,        \* apply_ops: the operations being applied
    idx,        \* apply_ops: number of operations already applied
    resolved,   \* per applied operation, what _resolve_conflict returned
    guarded,    \* history: what existed at/below each destination before its operation ran
    exc,        \* the exception that ended apply_ops ("none" if none)
    pc,         \* position of the run
    raw,        \* rules_to_json output (JSON text)
    loaded,     \* result of rules_from_json(raw)
    verdict,    \* result of validate_rules_static / validate_rules_for_audio
    old_paths,      \* plugin_hooks._old_paths: file object -> recorded path
    filename,       \* file object -> its .filename (a path, or none)
    events,         \* history: the calls of the hooks and the options page, in order
    log,            \* what the hooks wrote to api.logger
    escaped,        \* the exception the last hook call let out ("none" if none)
    plugin_config,  \* api.plugin_config: the options that are stored
    global_config,  \* api.global_config.setting (host settings)
    table,          \* options page: the rules shown after load()
    args,           \* attach_sidecars: its keyword arguments and the platform
    pending,        \* attach_sidecars: the audio files not yet visited
    lyrics_index,   \* attach_sidecars: lowercase stem -> .lrc files under root
    cover_done_dirs, \* attach_sidecars: the directories whose cover is dealt with
    stats           \* attach_sidecars: the counters of AttachStats

\* the state of the hooks and the options page
hookVars == <<old_paths, filename, events, log, escaped, plugin_config, global_config, table>>

\* the state of the bulk linker
linkVars == <<args, pending, lyrics_index, cover_done_dirs, stats>>

vars == <<fs, fs0, srcAudio, dstAudio, rules, metadata, conflict, plan, ops, idx,
          resolved, guarded, exc, pc, raw, loaded, verdict, hookVars, linkVars>>

\* metadata=None, and a metadata mapping
NoMetadata == [given |-> FALSE, tags |-> <<>>]

Metadata(m) == [given |-> TRUE, tags |-> m]

---------------------------------------------------------------------------
(* Strings *)

\* The characters in ASCII order (str comparison is by code point).
Alphabet ==
    << "\t", " ", "\"", "(", ")", "*", ",", "-", ".", "/", "0", "1", "2", "3", "4",
       "5", "6", "7", "8", "9", ":", "?", "B", "F", "L", "N", "T", "[", "\\", "]", "_", "a", "b", "c", "d", "e",
       "f", "g", "h", "i", "j", "k", "l", "m", "n", "o", "p", "q", "r", "s", "t",
       "u", "v", "w", "x", "y", "z", "{", "}" >>

\* a string literal as its sequence of characters
Str(s) == [i \in 1..Len(s) |-> SubSeq(s, i, i)]

\* string constants of the source
sBase == Str("{base}")

sMove == Str("move")

sCopy == Str("copy")

sTreeEnd == Str("/**")

Backslash == Str("\\")

Ord(c) == CHOOSE i \in 1..Len(Alphabet) : Alphabet[i] = c

Whitespace == {" ", "\t"}

\* t occurs in s at position i
OccursAt(s, t, i) ==
    /\ i + Len(t) - 1 <= Len(s)
    /\ \A k \in 1..Len(t) : s[i + k - 1] = t[k]

\* "t in s"
Contains(s, t) == \E i \in 1..(Len(s) - Len(t) + 1) : OccursAt(s, t, i)

StartsWith(s, t) == Len(t) <= Len(s) /\ OccursAt(s, t, 1)

EndsWith(s, t) == Len(t) <= Len(s) /\ OccursAt(s, t, Len(s) - Len(t) + 1)

RECURSIVE ReplaceFrom(_, _, _, _)
ReplaceFrom(s, old, new, i) ==
    IF i > Len(s) THEN <<>>
    ELSE IF OccursAt(s, old, i)
         THEN new \o ReplaceFrom(s, old, new, i + Len(old))
         ELSE <<s[i]>> \o ReplaceFrom(s, old, new, i + 1)

RECURSIVE Interleave(_, _, _)
Interleave(s, new, i) ==
    IF i > Len(s) THEN new ELSE new \o <<s[i]>> \o Interleave(s, new, i + 1)

\* str.replace(old, new, 1): the first occurrence only
ReplaceFirst(s, old, new) ==
    IF old = <<>> THEN new \o s
    ELSE IF \E i \in 1..Len(s) : OccursAt(s, old, i)
         THEN LET i == CHOOSE x \in 1..Len(s) :
                           OccursAt(s, old, x) /\ \A y \in 1..(x - 1) : ~OccursAt(s, old, y)
              IN  SubSeq(s, 1, i - 1) \o new \o SubSeq(s, i + Len(old), Len(s))
         ELSE s

\* str.replace(old, new): leftmost, non-overlapping occurrences
Replace(s, old, new) ==
    IF old = <<>> THEN Interleave(s, new, 1) ELSE ReplaceFrom(s, old, new, 1)

\* str.strip()
Strip(s) ==
    LET keep == {i \in 1..Len(s) : s[i] \notin Whitespace}
    IN  IF keep = {} THEN <<>>
        ELSE LET lo == CHOOSE i \in keep : \A j \in keep : i <= j
                 hi == CHOOSE i \in keep : \A j \in keep : j <= i
             IN  SubSeq(s, lo, hi)

\* str < str
RECURSIVE StrLess(_, _)
StrLess(a, b) ==
    IF b = <<>> THEN FALSE
    ELSE IF a = <<>> THEN TRUE
    ELSE IF a[1] = b[1] THEN StrLess(Tail(a), Tail(b))
    ELSE Ord(a[1]) < Ord(b[1])

Digit(d) == Alphabet[Ord("0") + d]

\* str(n) for n >= 0
RECURSIVE IntToStr(_)
IntToStr(n) == IF n < 10 THEN <<Digit(n)>> ELSE IntToStr(n \div 10) \o <<Digit(n % 10)>>

---------------------------------------------------------------------------
(* Pure paths (pathlib.PurePosixPath) *)

Root == <<>>

DotDot == Str("..")

Slash == Str("/")

Parent(p) == IF p = <<>> THEN <<>> ELSE SubSeq(p, 1, Len(p) - 1)

Name(p) == IF p = <<>> THEN <<>> ELSE p[Len(p)]

IsPrefix(a, b) == Len(a) <= Len(b) /\ SubSeq(b, 1, Len(a)) = a

\* The components of a path string: split on "/", empty and "." components dropped.
RECURSIVE SplitFrom(_, _, _)
SplitFrom(s, i, cur) ==
    LET flush == IF cur = <<>> \/ cur = <<".">> THEN <<>> ELSE <<cur>>
    IN  IF i > Len(s) THEN flush
        ELSE IF s[i] = "/" THEN flush \o SplitFrom(s, i + 1, <<>>)
        ELSE SplitFrom(s, i + 1, Append(cur, s[i]))

SplitPath(s) == SplitFrom(s, 1, <<>>)

\* dir / s: an absolute right operand replaces the left one
PathJoin(dir, s) == IF StartsWith(s, Slash) THEN SplitPath(s) ELSE dir \o SplitPath(s)

LastDot(n) ==
    IF \E i \in 1..Len(n) : n[i] = "."
    THEN CHOOSE i \in 1..Len(n) : n[i] = "." /\ \A j \in (i + 1)..Len(n) : n[j] # "."
    ELSE 0

\* PurePath.suffix: from the last dot, unless that dot is the first or the last character
Suffix(n) ==
    LET i == LastDot(n)
    IN  IF 1 < i /\ i < Len(n) THEN SubSeq(n, i, Len(n)) ELSE <<>>

\* PurePath.stem
Stem(n) ==
    LET i == LastDot(n)
    IN  IF 1 < i /\ i < Len(n) THEN SubSeq(n, 1, i - 1) ELSE n

\* PurePath.with_name
WithName(p, n) == Append(Parent(p), n)

\* PurePath.__lt__: part by part, each part as a string
RECURSIVE PathLess(_, _)
PathLess(a, b) ==
    IF b = <<>> THEN FALSE
    ELSE IF a = <<>> THEN TRUE
    ELSE IF a[1] = b[1] THEN PathLess(Tail(a), Tail(b))
    ELSE StrLess(a[1], b[1])

\* sorted(set of paths)
RECURSIVE SortPaths(_)
SortPaths(S) ==
    IF S = {} THEN <<>>
    ELSE LET m == CHOOSE x \in S : \A y \in S \ {x} : PathLess(x, y)
         IN  <<m>> \o SortPaths(S \ {m})

---------------------------------------------------------------------------
(* The filesystem *)

File(d) == [kind |-> "file", data |-> d, to |-> <<>>]

Dir == [kind |-> "dir", data |-> "", to |-> <<>>]

Link(target) == [kind |-> "link", data |-> "", to |-> target]

\* Path.resolve() (os.path.realpath, non-strict): symlinks followed, ".." taken after
\* them, missing components kept as written.
RECURSIVE Resolve(_, _, _)
Resolve(f, cur, rest) ==
    IF rest = <<>> THEN cur
    ELSE LET c == Head(rest)
             np == Append(cur, c)
         IN  IF c = DotDot THEN Resolve(f, Parent(cur), Tail(rest))
             ELSE IF np \in DOMAIN f /\ f[np].kind = "link"
                  THEN Resolve(f, Root, f[np].to \o Tail(rest))
                  ELSE Resolve(f, np, Tail(rest))

ResolvePath(f, p) == Resolve(f, Root, p)

\* The kernel's path walk: every component but the last must lead to a directory.
\* found: the path names a node; slot: its parent directory exists; enotdir: a
\* component on the way is not a directory; at: where the walk ended.
RECURSIVE KWalk(_, _, _, _)
KWalk(f, cur, rest, followLast) ==
    IF cur \notin DOMAIN f
    THEN [found |-> FALSE, slot |-> FALSE, enotdir |-> FALSE, at |-> cur]
    ELSE IF f[cur].kind # "dir"
    THEN [found |-> FALSE, slot |-> FALSE, enotdir |-> TRUE, at |-> cur]
    ELSE IF rest = <<>> THEN [found |-> TRUE, slot |-> TRUE, enotdir |-> FALSE, at |-> cur]
    ELSE LET c == Head(rest)
             np == Append(cur, c)
             last == Len(rest) = 1
         IN  IF c = DotDot THEN KWalk(f, Parent(cur), Tail(rest), followLast)
             ELSE IF np \notin DOMAIN f
                  THEN [found |-> FALSE, slot |-> last, enotdir |-> FALSE, at |-> np]
             ELSE IF f[np].kind = "link" /\ (~last \/ followLast)
                  THEN KWalk(f, Root, f[np].to \o Tail(rest), followLast)
             ELSE IF last THEN [found |-> TRUE, slot |-> TRUE, enotdir |-> FALSE, at |-> np]
             ELSE KWalk(f, np, Tail(rest), followLast)

Stat(f, p) == KWalk(f, Root, p, TRUE)

LStat(f, p) == KWalk(f, Root, p, FALSE)

\* Path.exists(): follows symlinks, so a broken symlink does not exist
Exists(f, p) == Stat(f, p).found

\* os.path.lexists
LExists(f, p) == LStat(f, p).found

IsDir(f, p) == LET w == Stat(f, p) IN w.found /\ f[w.at].kind = "dir"

IsFile(f, p) == LET w == Stat(f, p) IN w.found /\ f[w.at].kind = "file"

IsLink(f, p) == LET w == LStat(f, p) IN w.found /\ f[w.at].kind = "link"

\* os.listdir of a canonical directory
ListDir(f, q) == {Name(p) : p \in {x \in DOMAIN f : Len(x) = Len(q) + 1 /\ IsPrefix(q, x)}}

Below(f, q) == {p \in DOMAIN f : IsPrefix(q, p)}

Restrict(f, S) == [p \in S |-> f[p]]

Put(f, p, node) == (p :> node) @@ f

\* the subtree at canonical a removed
RemoveTree(f, a) == Restrict(f, DOMAIN f \ Below(f, a))

Rebase(p, a, b) == b \o SubSeq(p, Len(a) + 1, Len(p))

\* the subtree at canonical a copied to canonical b (symlinks inside are followed)
CopyNode(f, p) ==
    IF f[p].kind = "link" /\ IsFile(f, p) THEN f[Stat(f, p).at] ELSE f[p]

GraftTree(f, a, b) ==
    LET moved == {Rebase(p, a, b) : p \in Below(f, a)}
    IN  [q \in DOMAIN f \cup moved |->
            IF q \in moved THEN CopyNode(f, Rebase(q, b, a)) ELSE f[q]]

\* os.rename of canonical a to canonical b
RenameTree(f, a, b) ==
    LET moved == {Rebase(p, a, b) : p \in Below(f, a)}
        keep  == (DOMAIN f \ Below(f, a)) \ Below(f, b)
    IN  [q \in keep \cup moved |-> IF q \in moved THEN f[Rebase(q, b, a)] ELSE f[q]]

---------------------------------------------------------------------------
(* config.py: the rule model *)

SidecarRule(label, embedded, enabled, mode, tag, mask) ==
    [type_label |-> label, embedded |-> embedded, enabled |-> enabled,
     move_mode |-> mode, embedded_tag |-> tag, filemask |-> mask]

Ok == [status |-> "ok", msg |-> "", mask |-> <<>>, labels |-> <<>>]

ConfigError(m, mask, labels) ==
    [status |-> "ConfigError", msg |-> m, mask |-> mask, labels |-> labels]

NormalizeMask(mask) == Replace(mask, Backslash, Slash)

\* SidecarRule.is_tree
IsTree(rule) == ~rule.embedded /\ EndsWith(NormalizeMask(rule.filemask), sTreeEnd)

\* validate_rule comparing the fields with "" without stripping them
ValidateRuleUnstripped(rule) ==
    IF rule.type_label = <<>> THEN "type_label is required"
    ELSE IF rule.move_mode \notin {sMove, sCopy} THEN "move_mode must be 'move' or 'copy'"
    ELSE IF rule.embedded
         THEN IF rule.embedded_tag = <<>>
              THEN "embedded_tag is required when embedded=true"
              ELSE IF rule.filemask # <<>>
                   THEN "filemask must be empty when embedded=true"
                   ELSE ""
         ELSE IF rule.filemask = <<>>
              THEN "filemask is required when embedded=false"
              ELSE IF ~Contains(rule.filemask, sBase)
                   THEN "filemask must include '{base}'"
                   ELSE IF rule.embedded_tag # <<>>
                        THEN "embedded_tag must be empty when embedded=false"
                        ELSE ""

\* validate_rule: the message of the first _require that fails, "" if none does
ValidateRule(rule) ==
    IF Strip(rule.type_label) = <<>> THEN "type_label is required"
    ELSE IF rule.move_mode \notin {sMove, sCopy} THEN "move_mode must be 'move' or 'copy'"
    ELSE IF rule.embedded
         THEN IF Strip(rule.embedded_tag) = <<>>
              THEN "embedded_tag is required when embedded=true"
              ELSE IF Strip(rule.filemask) # <<>>
                   THEN "filemask must be empty when embedded=true"
                   ELSE ""
         ELSE IF Strip(rule.filemask) = <<>>
              THEN "filemask is required when embedded=false"
              ELSE IF ~Contains(rule.filemask, sBase)
                   THEN "filemask must include '{base}'"
                   ELSE IF Strip(rule.embedded_tag) # <<>>
                        THEN "embedded_tag must be empty when embedded=false"
                        ELSE ""

RECURSIVE StaticLoop(_, _, _)
StaticLoop(rs, i, seen_masks) ==
    IF i > Len(rs) THEN Ok
    ELSE LET rule == rs[i]
             m == ValidateRule(rule)
             normalized == Replace(rule.filemask, Backslash, Slash)
         IN  IF m # "" THEN ConfigError(m, <<>>, <<>>)
             ELSE IF rule.enabled /\ ~rule.embedded
                  THEN IF normalized \in seen_masks
                       THEN ConfigError("Duplicate filemask template for enabled external rule",
                                        normalized, <<>>)
                       ELSE StaticLoop(rs, i + 1, seen_masks \cup {normalized})
                  ELSE StaticLoop(rs, i + 1, seen_masks)

\* validate_rules_static
ValidateRulesStatic(rs) ==
    IF Len(rs) = 0 THEN ConfigError("At least one rule is required", <<>>, <<>>)
    ELSE StaticLoop(rs, 1, {})

---------------------------------------------------------------------------
(* config.py: serialization (json.dumps / json.loads on the subset of JSON *)
(* the rule set uses: strings, true, false, null, arrays, objects)         *)

sTrue == Str("true")

sFalse == Str("false")

sNull == Str("null")

kEmbedded == Str("embedded")

kEmbeddedTag == Str("embedded_tag")

kEnabled == Str("enabled")

kFilemask == Str("filemask")

kMoveMode == Str("move_mode")

kTypeLabel == Str("type_label")

\* json.dumps of one character, the backslash left as it is
EscapeCharKeepsBackslash(c) ==
    IF c = "\"" THEN <<"\\", "\"">>
    ELSE IF c = "\t" THEN <<"\\", "t">>
    ELSE <<c>>

\* json.dumps of one character of a string
EscapeChar(c) ==
    IF c = "\"" THEN <<"\\", "\"">>
    ELSE IF c = "\\" THEN <<"\\", "\\">>
    ELSE IF c = "\t" THEN <<"\\", "t">>
    ELSE <<c>>

RECURSIVE Escape(_)
Escape(s) == IF s = <<>> THEN <<>> ELSE EscapeChar(Head(s)) \o Escape(Tail(s))

JsonStr(s) == <<"\"">> \o Escape(s) \o <<"\"">>

JsonBool(b) == IF b THEN sTrue ELSE sFalse

JsonKey(k) == JsonStr(k) \o <<":">>

\* one rule's object, keys sorted (sort_keys=True), separators "," and ":"
RuleToJson(r) ==
    <<"{">> \o JsonKey(kEmbedded) \o JsonBool(r.embedded)
      \o <<",">> \o JsonKey(kEmbeddedTag) \o JsonStr(r.embedded_tag)
      \o <<",">> \o JsonKey(kEnabled) \o JsonBool(r.enabled)
      \o <<",">> \o JsonKey(kFilemask) \o JsonStr(r.filemask)
      \o <<",">> \o JsonKey(kMoveMode) \o JsonStr(r.move_mode)
      \o <<",">> \o JsonKey(kTypeLabel) \o JsonStr(r.type_label)
      \o <<"}">>

RECURSIVE JoinRules(_, _)
JoinRules(rs, i) ==
    IF i > Len(rs) THEN <<>>
    ELSE (IF i > 1 THEN <<",">> ELSE <<>>) \o RuleToJson(rs[i]) \o JoinRules(rs, i + 1)

\* rules_to_json
RulesToJson(rs) == <<"[">> \o JoinRules(rs, 1) \o <<"]">>

\* A decoded JSON value.  An object keeps its members as parallel sequences.
JStr(s) == [t |-> "str", s |-> s, b |-> FALSE, items |-> <<>>, keys |-> <<>>]

JBool(b) == [t |-> "bool", s |-> <<>>, b |-> b, items |-> <<>>, keys |-> <<>>]

JNull == [t |-> "null", s |-> <<>>, b |-> FALSE, items |-> <<>>, keys |-> <<>>]

JList(items) == [t |-> "list", s |-> <<>>, b |-> FALSE, items |-> items, keys |-> <<>>]

JObj(keys, vals) == [t |-> "obj", s |-> <<>>, b |-> FALSE, items |-> vals, keys |-> keys]

ParseFail == [ok |-> FALSE, val |-> JNull, next |-> 0]

Parsed(v, n) == [ok |-> TRUE, val |-> v, next |-> n]

RECURSIVE SkipWs(_, _)
SkipWs(t, i) == IF i <= Len(t) /\ t[i] \in Whitespace THEN SkipWs(t, i + 1) ELSE i

\* the body of a string, from the character after the opening quote
RECURSIVE ReadStr(_, _, _)
ReadStr(t, i, acc) ==
    IF i > Len(t) THEN ParseFail
    ELSE IF t[i] = "\"" THEN Parsed(JStr(acc), i + 1)
    ELSE IF t[i] = "\\"
         THEN IF i + 1 > Len(t) THEN ParseFail
              ELSE IF t[i + 1] \in {"\"", "\\", "/"} THEN ReadStr(t, i + 2, Append(acc, t[i + 1]))
              ELSE IF t[i + 1] = "t" THEN ReadStr(t, i + 2, Append(acc, "\t"))
              ELSE ParseFail
    ELSE IF t[i] = "\t" THEN ParseFail
    ELSE ReadStr(t, i + 1, Append(acc, t[i]))

RECURSIVE ParseValue(_, _)
RECURSIVE ParseElems(_, _, _)
RECURSIVE ParseMembers(_, _, _, _)

\* elements of an array, from the position of an element
ParseElems(t, i, acc) ==
    LET e == ParseValue(t, i)
        j == SkipWs(t, e.next)
    IN  IF ~e.ok \/ j > Len(t) THEN ParseFail
        ELSE IF t[j] = "]" THEN Parsed(JList(Append(acc, e.val)), j + 1)
        ELSE IF t[j] = "," THEN ParseElems(t, j + 1, Append(acc, e.val))
        ELSE ParseFail

\* members of an object, from the position of a key
ParseMembers(t, i, keys, vals) ==
    LET k0 == SkipWs(t, i)
        k == IF k0 <= Len(t) /\ t[k0] = "\"" THEN ReadStr(t, k0 + 1, <<>>) ELSE ParseFail
        c == SkipWs(t, k.next)
        v == IF k.ok /\ c <= Len(t) /\ t[c] = ":" THEN ParseValue(t, c + 1) ELSE ParseFail
        j == SkipWs(t, v.next)
    IN  IF ~v.ok \/ j > Len(t) THEN ParseFail
        ELSE IF t[j] = "}"
             THEN Parsed(JObj(Append(keys, k.val.s), Append(vals, v.val)), j + 1)
        ELSE IF t[j] = ","
             THEN ParseMembers(t, j + 1, Append(keys, k.val.s), Append(vals, v.val))
        ELSE ParseFail

ParseValue(t, i0) ==
    LET i == SkipWs(t, i0)
    IN  IF i > Len(t) THEN ParseFail
        ELSE IF t[i] = "\"" THEN ReadStr(t, i + 1, <<>>)
        ELSE IF OccursAt(t, sTrue, i) THEN Parsed(JBool(TRUE), i + 4)
        ELSE IF OccursAt(t, sFalse, i) THEN Parsed(JBool(FALSE), i + 5)
        ELSE IF OccursAt(t, sNull, i) THEN Parsed(JNull, i + 4)
        ELSE IF t[i] = "["
             THEN LET j == SkipWs(t, i + 1)
                  IN  IF j <= Len(t) /\ t[j] = "]" THEN Parsed(JList(<<>>), j + 1)
                      ELSE ParseElems(t, j, <<>>)
        ELSE IF t[i] = "{"
             THEN LET j == SkipWs(t, i + 1)
                  IN  IF j <= Len(t) /\ t[j] = "}" THEN Parsed(JObj(<<>>, <<>>), j + 1)
                      ELSE ParseMembers(t, j, <<>>, <<>>)
        ELSE ParseFail

\* json.loads: one value, then nothing but whitespace
JsonLoads(t) ==
    LET v == ParseValue(t, 1)
    IN  IF v.ok /\ SkipWs(t, v.next) = Len(t) + 1 THEN v ELSE ParseFail

\* dict.get(key, default): the last member with that key
DictGet(obj, key, default) ==
    LET hits == {i \in 1..Len(obj.keys) : obj.keys[i] = key}
    IN  IF hits = {} THEN default
        ELSE obj.items[CHOOSE i \in hits : \A j \in hits : j <= i]

\* str(v)
PyStr(v) ==
    IF v.t = "str" THEN v.s
    ELSE IF v.t = "bool" THEN (IF v.b THEN Str("True") ELSE Str("False"))
    ELSE Str("None")

\* bool(v)
PyBool(v) ==
    IF v.t = "str" THEN v.s # <<>>
    ELSE IF v.t = "bool" THEN v.b
    ELSE IF v.t = "null" THEN FALSE
    ELSE IF v.t = "list" THEN v.items # <<>>
    ELSE v.keys # <<>>

RuleFromItem(item) ==
    SidecarRule(PyStr(DictGet(item, kTypeLabel, JStr(<<>>))),
                PyBool(DictGet(item, kEmbedded, JBool(FALSE))),
                PyBool(DictGet(item, kEnabled, JBool(TRUE))),
                PyStr(DictGet(item, kMoveMode, JStr(sMove))),
                PyStr(DictGet(item, kEmbeddedTag, JStr(<<>>))),
                PyStr(DictGet(item, kFilemask, JStr(<<>>))))

\* rules_from_json: [status, rules, msg]
RulesFromJson(text) ==
    LET data == JsonLoads(text)
    IN  IF ~data.ok THEN [status |-> "ConfigError", rules |-> <<>>, msg |-> "Invalid rules JSON"]
        ELSE IF data.val.t # "list"
             THEN [status |-> "ConfigError", rules |-> <<>>, msg |-> "Rules JSON must be a list"]
        ELSE IF \E i \in 1..Len(data.val.items) : data.val.items[i].t # "obj"
             THEN [status |-> "ConfigError", rules |-> <<>>, msg |-> "Each rule must be an object"]
        ELSE LET rs == [i \in 1..Len(data.val.items) |-> RuleFromItem(data.val.items[i])]
                 v == ValidateRulesStatic(rs)
             IN  IF v.status # "ok"
                 THEN [status |-> "ConfigError", rules |-> <<>>, msg |-> v.msg]
                 ELSE [status |-> "ok", rules |-> rs, msg |-> ""]

---------------------------------------------------------------------------
(* glob.glob(pattern, recursive=True) for patterns made of literal         *)
(* components and components with "*" or "?"                               *)

HasMagic(c) == \E i \in 1..Len(c) : c[i] \in {"*", "?"}

\* fnmatch.fnmatchcase(name[i..], pat[j..])
RECURSIVE FnMatchAt(_, _, _, _)
FnMatchAt(name, pat, i, j) ==
    IF j > Len(pat) THEN i > Len(name)
    ELSE IF pat[j] = "*"
         THEN \E k \in i..(Len(name) + 1) : FnMatchAt(name, pat, k, j + 1)
    ELSE IF i > Len(name) THEN FALSE
    ELSE IF pat[j] = "?" \/ pat[j] = name[i] THEN FnMatchAt(name, pat, i + 1, j + 1)
    ELSE FALSE

FnMatch(name, pat) == FnMatchAt(name, pat, 1, 1)

IsHidden(n) == n # <<>> /\ n[1] = "."

\* _glob1: the names of a directory that match, hidden ones only for a hidden pattern
Glob1(f, dir, pat) ==
    LET w == Stat(f, dir)
    IN  IF w.found /\ f[w.at].kind = "dir"
        THEN {n \in ListDir(f, w.at) : (IsHidden(pat) \/ ~IsHidden(n)) /\ FnMatch(n, pat)}
        ELSE {}

\* the paths, as written, that the pattern's components can spell
RECURSIVE GlobFrom(_, _, _)
GlobFrom(f, prefix, comps) ==
    IF comps = <<>> THEN {prefix}
    ELSE LET c == Head(comps)
         IN  IF HasMagic(c)
             THEN UNION {GlobFrom(f, Append(prefix, n), Tail(comps)) : n \in Glob1(f, prefix, c)}
             ELSE GlobFrom(f, Append(prefix, c), Tail(comps))

\* glob.glob: the spelled paths that exist (os.path.lexists)
Glob(f, pattern) == {p \in GlobFrom(f, Root, pattern) : LExists(f, p)}

---------------------------------------------------------------------------
(* engine.py: the planner *)

FileOp(src, dst, mode, cpol) ==
    [type |-> "file", src |-> src, dst |-> dst, mode |-> mode, conflict |-> cpol]

\* src_dir and dst_dir are kept in the fields src and dst, as for a FileOp
TreeOp(src, dst, mode, cpol) ==
    [type |-> "tree", src |-> src, dst |-> dst, mode |-> mode, conflict |-> cpol]

\* _base_no_ext
BaseNoExt(path) == Stem(Name(path))

\* _expand
Expand(mask, base) == Replace(mask, sBase, base)

RECURSIVE AudioLoop(_, _, _, _)
AudioLoop(rs, dst_base, i, seen) ==
    IF i > Len(rs) THEN Ok
    ELSE LET rule == rs[i]
             expanded == Expand(NormalizeMask(rule.filemask), dst_base)
             hit == {s \in seen : s[1] = expanded}
         IN  IF ~rule.enabled \/ rule.embedded THEN AudioLoop(rs, dst_base, i + 1, seen)
             ELSE IF hit # {}
                  THEN ConfigError("Duplicate resolved filemask for this audio file", expanded,
                                   <<(CHOOSE s \in hit : TRUE)[2], rule.type_label>>)
                  ELSE AudioLoop(rs, dst_base, i + 1, seen \cup {<<expanded, rule.type_label>>})

\* validate_rules_for_audio stopping after the static validation
ValidateRulesForAudioStaticOnly(rs, dst_base) == ValidateRulesStatic(rs)

\* validate_rules_for_audio
ValidateRulesForAudio(rs, dst_base) ==
    LET static == ValidateRulesStatic(rs)
    IN  IF static.status # "ok" THEN static ELSE AudioLoop(rs, dst_base, 1, {})

Planned(opsList) == [status |-> "ok", ops |-> opsList, err |-> Ok]

PlanFailed(e) == [status |-> "ConfigError", ops |-> <<>>, err |-> e]

\* MatchOp with the containment test left out
MatchOpUnchecked(f, src_dir, dst_dir, src_base, dst_base, rule, cpol, src_match) ==
    LET resolved_match == ResolvePath(f, src_match)
        src_root == ResolvePath(f, src_dir)
        rel == SubSeq(resolved_match, Len(src_root) + 1, Len(resolved_match))
        dst_name == Replace(Name(rel), src_base, dst_base)
        dst_path == PathJoin(dst_dir \o Parent(rel), dst_name)
    IN  Planned(<<FileOp(resolved_match, dst_path, rule.move_mode, cpol)>>)

\* MatchOp replacing only the first occurrence of the source base name
MatchOpReplacesOnce(f, src_dir, dst_dir, src_base, dst_base, rule, cpol, src_match) ==
    LET resolved_match == ResolvePath(f, src_match)
        src_root == ResolvePath(f, src_dir)
        rel == SubSeq(resolved_match, Len(src_root) + 1, Len(resolved_match))
        dst_name == ReplaceFirst(Name(rel), src_base, dst_base)
        dst_path == PathJoin(dst_dir \o Parent(rel), dst_name)
    IN  IF ~IsPrefix(src_root, resolved_match)
        THEN PlanFailed(ConfigError("Matched file escapes source directory", <<>>, <<>>))
        ELSE Planned(<<FileOp(resolved_match, dst_path, rule.move_mode, cpol)>>)

\* the body of "for src_match in matches": the operation, or the escape error
MatchOp(f, src_dir, dst_dir, src_base, dst_base, rule, cpol, src_match) ==
    LET resolved_match == ResolvePath(f, src_match)
        src_root == ResolvePath(f, src_dir)
        rel == SubSeq(resolved_match, Len(src_root) + 1, Len(resolved_match))
        dst_name == Replace(Name(rel), src_base, dst_base)
        dst_path == PathJoin(dst_dir \o Parent(rel), dst_name)
    IN  IF ~IsPrefix(src_root, resolved_match)
        THEN PlanFailed(ConfigError("Matched file escapes source directory", <<>>, <<>>))
        ELSE Planned(<<FileOp(resolved_match, dst_path, rule.move_mode, cpol)>>)

RECURSIVE MatchLoop(_, _, _, _, _, _, _, _, _)
MatchLoop(f, src_dir, dst_dir, src_base, dst_base, rule, cpol, matches, acc) ==
    IF matches = <<>> THEN Planned(acc)
    ELSE LET r == MatchOp(f, src_dir, dst_dir, src_base, dst_base, rule, cpol, Head(matches))
         IN  IF r.status # "ok" THEN r
             ELSE MatchLoop(f, src_dir, dst_dir, src_base, dst_base, rule, cpol,
                            Tail(matches), acc \o r.ops)

\* the matches of a file rule in the reverse of the sorted order
MatchesDescending(f, src_dir, src_base, rule) ==
    LET s == SortPaths(Glob(f, PathJoin(src_dir, Expand(NormalizeMask(rule.filemask), src_base))))
    IN  [i \in 1..Len(s) |-> s[Len(s) + 1 - i]]

\* the matches of a file rule: sorted({Path(p) for p in glob.glob(src_pattern)})
Matches(f, src_dir, src_base, rule) ==
    SortPaths(Glob(f, PathJoin(src_dir, Expand(NormalizeMask(rule.filemask), src_base))))

\* TreeRule with the containment test left out
TreeRuleUnchecked(f, src_dir, dst_dir, src_base, dst_base, rule, cpol) ==
    LET mask == NormalizeMask(rule.filemask)
        dir_template == SubSeq(mask, 1, Len(mask) - 3)
        src_tree == ResolvePath(f, PathJoin(src_dir, Expand(dir_template, src_base)))
        dst_tree == PathJoin(dst_dir, Expand(dir_template, dst_base))
    IN  IF ~Exists(f, src_tree) THEN Planned(<<>>)
        ELSE Planned(<<TreeOp(src_tree, dst_tree, rule.move_mode, cpol)>>)

\* the tree branch of the loop body: the operations it appends, or the escape error
TreeRule(f, src_dir, dst_dir, src_base, dst_base, rule, cpol) ==
    LET mask == NormalizeMask(rule.filemask)
        dir_template == SubSeq(mask, 1, Len(mask) - 3)
        src_tree == ResolvePath(f, PathJoin(src_dir, Expand(dir_template, src_base)))
        src_root == ResolvePath(f, src_dir)
        dst_tree == PathJoin(dst_dir, Expand(dir_template, dst_base))
    IN  IF ~IsPrefix(src_root, src_tree)
        THEN PlanFailed(ConfigError("Tree path escapes source directory", <<>>, <<>>))
        ELSE IF ~Exists(f, src_tree) THEN Planned(<<>>)
        ELSE Planned(<<TreeOp(src_tree, dst_tree, rule.move_mode, cpol)>>)

\* the embedded branch with "tag not in metadata" as its only test
EmbeddedRulePresenceOnly(rule, meta) ==
    LET tag == rule.embedded_tag
    IN  IF meta.given /\ tag # <<>> /\ tag \notin DOMAIN meta.tags
        THEN PlanFailed(ConfigError("Embedded tag missing or empty", <<>>, <<>>))
        ELSE Planned(<<>>)

\* the embedded branch: the tag must be present and truthy when metadata is given; the
\* values of the mapping are Python values, "not metadata.get(tag)" is their falsiness
EmbeddedRule(rule, meta) ==
    LET tag == rule.embedded_tag
    IN  IF meta.given /\ tag # <<>> /\ (tag \notin DOMAIN meta.tags \/ ~PyBool(meta.tags[tag]))
        THEN PlanFailed(ConfigError("Embedded tag missing or empty", <<>>, <<>>))
        ELSE Planned(<<>>)

\* one iteration of "for rule in rules" without the test of rule.enabled
RuleOpsPlansDisabled(f, src_dir, dst_dir, src_base, dst_base, rule, meta, cpol) ==
    IF rule.embedded THEN EmbeddedRule(rule, meta)
    ELSE IF IsTree(rule) THEN TreeRule(f, src_dir, dst_dir, src_base, dst_base, rule, cpol)
    ELSE MatchLoop(f, src_dir, dst_dir, src_base, dst_base, rule, cpol,
                   Matches(f, src_dir, src_base, rule), <<>>)

\* one iteration of "for rule in rules"
RuleOps(f, src_dir, dst_dir, src_base, dst_base, rule, meta, cpol) ==
    IF ~rule.enabled THEN Planned(<<>>)
    ELSE IF rule.embedded THEN EmbeddedRule(rule, meta)
    ELSE IF IsTree(rule) THEN TreeRule(f, src_dir, dst_dir, src_base, dst_base, rule, cpol)
    ELSE MatchLoop(f, src_dir, dst_dir, src_base, dst_base, rule, cpol,
                   Matches(f, src_dir, src_base, rule), <<>>)

RECURSIVE RuleLoop(_, _, _, _, _, _, _, _, _, _)
RuleLoop(f, src_dir, dst_dir, src_base, dst_base, rs, meta, cpol, i, acc) ==
    IF i > Len(rs) THEN Planned(acc)
    ELSE LET r == RuleOps(f, src_dir, dst_dir, src_base, dst_base, rs[i], meta, cpol)
         IN  IF r.status # "ok" THEN r
             ELSE RuleLoop(f, src_dir, dst_dir, src_base, dst_base, rs, meta, cpol,
                           i + 1, acc \o r.ops)

\* plan_sidecar_ops
PlanSidecarOps(f, src_audio, dst_audio, rs, meta, cpol) ==
    LET src_dir == Parent(src_audio)
        dst_dir == Parent(dst_audio)
        src_base == BaseNoExt(src_audio)
        dst_base == BaseNoExt(dst_audio)
        v == ValidateRulesForAudio(rs, dst_base)
    IN  IF v.status # "ok" THEN PlanFailed(v)
        ELSE RuleLoop(f, src_dir, dst_dir, src_base, dst_base, rs, meta, cpol, 1, <<>>)

---------------------------------------------------------------------------
(* The filesystem calls fsops.py makes (os, pathlib, shutil).  Each returns *)
(* the filesystem afterwards and the exception raised, "none" if none.     *)

Done(f) == [fs |-> f, exc |-> "none"]

Raise(f, e) == [fs |-> f, exc |-> e]

\* os.mkdir(p) with Path.mkdir's exist_ok handling; "ENOENT" when the parent is missing
MkdirOne(f, p) ==
    LET l == LStat(f, p)
    IN  IF l.found THEN (IF IsDir(f, p) THEN Done(f) ELSE Raise(f, "OSError"))
        ELSE IF l.slot THEN Done(Put(f, l.at, Dir))
        ELSE IF l.enotdir THEN Raise(f, "OSError")
        ELSE Raise(f, "ENOENT")

\* Path.mkdir(parents=True, exist_ok=True)
RECURSIVE Mkdirs(_, _)
Mkdirs(f, p) ==
    LET first == MkdirOne(f, p)
    IN  IF first.exc # "ENOENT" THEN first
        ELSE IF p = Root THEN Raise(f, "OSError")
        ELSE LET up == Mkdirs(f, Parent(p))
             IN  IF up.exc # "none" THEN up
                 ELSE LET again == MkdirOne(up.fs, p)
                      IN  IF again.exc = "ENOENT" THEN Raise(up.fs, "OSError") ELSE again

\* Path.unlink(): the entry itself, a symlink is not followed
Unlink(f, p) ==
    LET l == LStat(f, p)
    IN  IF ~l.found \/ f[l.at].kind = "dir" THEN Raise(f, "OSError")
        ELSE Done(RemoveTree(f, l.at))

\* shutil.rmtree(p): refuses a symlink
RmTree(f, p) ==
    LET l == LStat(f, p)
    IN  IF ~l.found \/ f[l.at].kind # "dir" THEN Raise(f, "OSError")
        ELSE Done(RemoveTree(f, l.at))

\* shutil.copy2(src, dst), dst not an existing directory: src is read and dst written
\* through symlinks
Copy2(f, src, dst) ==
    LET s == Stat(f, src)
        d == Stat(f, dst)
    IN  IF ~s.found \/ f[s.at].kind # "file" THEN Raise(f, "OSError")
        ELSE IF d.found
             THEN (IF f[d.at].kind = "file" /\ d.at # s.at
                   THEN Done(Put(f, d.at, f[s.at])) ELSE Raise(f, "OSError"))
        ELSE IF d.slot THEN Done(Put(f, d.at, f[s.at]))
        ELSE Raise(f, "OSError")

\* shutil.copytree(src, dst): src is scanned, dst must be new
CopyTree(f, src, dst) ==
    LET s == Stat(f, src)
        d == LStat(f, dst)
    IN  IF ~s.found \/ f[s.at].kind # "dir" THEN Raise(f, "OSError")
        ELSE IF d.found \/ ~d.slot THEN Raise(f, "OSError")
        ELSE Done(GraftTree(f, s.at, d.at))

\* shutil.move(src, dst) for a dst that does not exist (Path.exists), so that an
\* entry found at dst is a broken symlink: os.rename, whose failures (missing source,
\* a directory onto a symlink, a directory into itself) also make the copy fallback
\* raise
Move(f, src, dst) ==
    LET s == LStat(f, src)
        d == LStat(f, dst)
    IN  IF ~s.found THEN Raise(f, "OSError")
        ELSE IF d.found
             THEN (IF f[s.at].kind = "dir" THEN Raise(f, "OSError")
                   ELSE IF s.at = d.at THEN Done(f)
                   ELSE Done(RenameTree(f, s.at, d.at)))
        ELSE IF ~d.slot \/ IsPrefix(s.at, d.at) THEN Raise(f, "OSError")
        ELSE Done(RenameTree(f, s.at, d.at))

---------------------------------------------------------------------------
(* fsops.py: the executor *)

RenameRangeEnd == 10000

\* _ensure_parent
EnsureParent(f, path) == Mkdirs(f, Parent(path))

\* _rename_candidate splitting the extension off a directory name as well
RenameCandidateAlwaysSplit(f, path, n) ==
    LET tag == Str(" (") \o IntToStr(n) \o Str(")")
    IN  WithName(path, Stem(Name(path)) \o tag \o Suffix(Name(path)))

\* _rename_candidate
RenameCandidate(f, path, n) ==
    LET tag == Str(" (") \o IntToStr(n) \o Str(")")
    IN  IF IsDir(f, path) \/ Suffix(Name(path)) = <<>>
        THEN WithName(path, Name(path) \o tag)
        ELSE WithName(path, Stem(Name(path)) \o tag \o Suffix(Name(path)))

\* the rename branch of _resolve_conflict: the first i of range(1, 10_000) whose
\* candidate does not exist, RuntimeError when the range is exhausted
FreeCandidate(f, dst) ==
    IF \E i \in 1..(RenameRangeEnd - 1) : ~Exists(f, RenameCandidate(f, dst, i))
    THEN LET n == CHOOSE i \in 1..(RenameRangeEnd - 1) :
                      /\ ~Exists(f, RenameCandidate(f, dst, i))
                      /\ \A k \in 1..(i - 1) : Exists(f, RenameCandidate(f, dst, k))
         IN  [fs |-> f, exc |-> "none", skip |-> FALSE, ret |-> RenameCandidate(f, dst, n)]
    ELSE [fs |-> f, exc |-> "RuntimeError", skip |-> FALSE, ret |-> <<>>]

\* the overwrite branch of _resolve_conflict: the existing destination is removed
Overwrite(f, dst) ==
    LET r == IF IsDir(f, dst) THEN RmTree(f, dst) ELSE Unlink(f, dst)
    IN  [fs |-> r.fs, exc |-> r.exc, skip |-> FALSE, ret |-> dst]

\* _resolve_conflict removing the existing destination under rename as under overwrite
ResolveConflictClobbers(f, dst, cpol) ==
    IF ~Exists(f, dst) THEN [fs |-> f, exc |-> "none", skip |-> FALSE, ret |-> dst]
    ELSE IF cpol = "skip" THEN [fs |-> f, exc |-> "none", skip |-> TRUE, ret |-> <<>>]
    ELSE Overwrite(f, dst)

\* _resolve_conflict: [fs, exc, skip, ret]; skip stands for the None it returns under
\* policy skip, ret is the path to write to otherwise
ResolveConflict(f, dst, cpol) ==
    IF ~Exists(f, dst) THEN [fs |-> f, exc |-> "none", skip |-> FALSE, ret |-> dst]
    ELSE IF cpol = "skip" THEN [fs |-> f, exc |-> "none", skip |-> TRUE, ret |-> <<>>]
    ELSE IF cpol = "overwrite" THEN Overwrite(f, dst)
    ELSE FreeCandidate(f, dst)

\* what follows _resolve_conflict in _apply_file and _apply_tree
Transfer(f, op, dst) ==
    LET par == EnsureParent(f, dst)
    IN  IF par.exc # "none" THEN par
        ELSE IF op.type = "file"
             THEN (IF op.mode = sCopy THEN Copy2(par.fs, op.src, dst)
                   ELSE Move(par.fs, op.src, dst))
             ELSE (IF op.mode = sCopy THEN CopyTree(par.fs, op.src, dst)
                   ELSE Move(par.fs, op.src, dst))

\* _apply_file / _apply_tree going on to the transfer when _resolve_conflict returned None
ApplyOpIgnoresSkip(f, op) ==
    LET rc == ResolveConflict(f, op.dst, op.conflict)
    IN  IF rc.exc # "none" THEN rc
        ELSE LET to == IF rc.skip THEN op.dst ELSE rc.ret
                 t == Transfer(rc.fs, op, to)
             IN  [fs |-> t.fs, exc |-> t.exc, skip |-> FALSE, ret |-> to]

\* _apply_file / _apply_tree: [fs, exc, skip, ret]
ApplyOp(f, op) ==
    LET rc == ResolveConflict(f, op.dst, op.conflict)
    IN  IF rc.exc # "none" \/ rc.skip THEN rc
        ELSE LET t == Transfer(rc.fs, op, rc.ret)
             IN  [fs |-> t.fs, exc |-> t.exc, skip |-> FALSE, ret |-> rc.ret]

\* apply_ops from operation i on: the operations in list order, the first exception
\* ends the loop; done is the number of operations that were started
RECURSIVE ApplyOps(_, _, _)
ApplyOps(f, opsList, i) ==
    IF i > Len(opsList) THEN [fs |-> f, exc |-> "none", done |-> Len(opsList)]
    ELSE LET r == ApplyOp(f, opsList[i])
         IN  IF r.exc # "none" THEN [fs |-> r.fs, exc |-> r.exc, done |-> i]
             ELSE ApplyOps(r.fs, opsList, i + 1)

---------------------------------------------------------------------------
(* The runs: inputs *)

\* a path literal
P(s) == SplitPath(Str(s))

\* a filesystem from a sequence of <<path, node>> entries
FsOf(entries) ==
    [p \in {entries[i][1] : i \in 1..Len(entries)} |->
        (CHOOSE e \in {entries[i] : i \in 1..Len(entries)} : e[1] = p)[2]]

\* every entry but the root lies in a directory
WellFormed(f) ==
    /\ Root \in DOMAIN f
    /\ \A p \in DOMAIN f : p # Root => Parent(p) \in DOMAIN f /\ f[Parent(p)].kind = "dir"

\* two filesystems agree on the paths they share
Agree(f, g) == \A p \in DOMAIN f \cap DOMAIN g : f[p] = g[p]

\* the directories every run starts with
BaseFs ==
    FsOf(<< <<Root, Dir>>, <<P("/s"), Dir>>, <<P("/d"), Dir>>, <<P("/out"), Dir>> >>)

\* what the directories may hold besides
Features ==
    << FsOf(<< <<P("/s/old.lrc"), File("lyrics")>> >>),
       FsOf(<< <<P("/s/aa.lrc"), File("aa")>> >>),
       FsOf(<< <<P("/s/ab.lrc"), File("ab")>> >>),
       FsOf(<< <<P("/s/old.extras"), Dir>>, <<P("/s/old.extras/n.txt"), File("notes")>> >>),
       FsOf(<< <<P("/d/new.lrc"), File("kept")>> >>),
       FsOf(<< <<P("/out/old.lrc"), File("other")>> >>),
       FsOf(<< <<P("/s/oldx.lrc"), Link(P("/out/old.lrc"))>> >>),
       FsOf(<< <<P("/s/oldy.lrc"), Link(P("/s/old.lrc"))>> >>),
       FsOf(<< <<P("/s/art"), Dir>>, <<P("/s/art/old.jpg"), File("front")>> >>) >>

\* at most this many features at once
MaxFeatures == 2

RECURSIVE Overlay(_, _)
Overlay(f, S) ==
    IF S = {} THEN f
    ELSE LET i == CHOOSE x \in S : TRUE
         IN  Overlay(Features[i] @@ f, S \ {i})

FeatureSets ==
    {S \in SUBSET (1..Len(Features)) :
        /\ Cardinality(S) <= MaxFeatures
        /\ \A i, j \in S : Agree(Features[i], Features[j])
        /\ WellFormed(Overlay(BaseFs, S))}

\* src_audio_path and dst_audio_path: a move to another directory, a move that makes
\* "a" "b", a save in place, a source directory named like the tree, a source at the root
AudioPairs ==
    { <<P("/s/old.flac"), P("/d/new.flac")>>,
      <<P("/s/a.flac"), P("/d/b.flac")>>,
      <<P("/s/old.flac"), P("/s/old.flac")>>,
      <<P("/s/old.extras/old.flac"), P("/d/new.flac")>>,
      <<P("/old.flac"), P("/d/new.flac")>> }

\* the saved primary file is at its destination when the sidecars are handled
WithAudio(f, dst_audio) ==
    IF Parent(dst_audio) \in DOMAIN f /\ f[Parent(dst_audio)].kind = "dir"
    THEN Put(f, dst_audio, File("audio")) ELSE f

\* the file and tree rules a run may be configured with
RulePool ==
    { SidecarRule(Str("lyrics"), FALSE, TRUE, sMove, <<>>, Str("{base}.lrc")),
      SidecarRule(Str("any"), FALSE, TRUE, sMove, <<>>, Str("{base}*.lrc")),
      SidecarRule(Str("art"), FALSE, TRUE, sMove, <<>>, Str("art/{base}.jpg")),
      SidecarRule(Str("extras"), FALSE, TRUE, sMove, <<>>, Str("{base}.extras/**")),
      SidecarRule(Str("up"), FALSE, TRUE, sCopy, <<>>, Str("../{base}.extras/**")),
      SidecarRule(Str("out"), FALSE, TRUE, sCopy, <<>>, Str("../out/{base}.lrc")) }

\* at most this many rules in a rule set
MaxRules == 2

RuleLists(pool, n) == UNION {[1..k -> pool] : k \in 0..n}

Policies == {"skip", "overwrite", "rename"}

\* the file's tags, or none
Metadatas == {NoMetadata}

---------------------------------------------------------------------------
(* The runs: planning, then applying the planned operations in order *)

\* values of the variables a run does not use
Idle == [status |-> "idle", ops |-> <<>>, err |-> Ok]

NotLoaded == [status |-> "idle", rules |-> <<>>, msg |-> ""]

\* the hooks and the options page take no part in a run
HookUnused ==
    /\ old_paths = <<>>
    /\ filename = <<>>
    /\ events = <<>>
    /\ log = <<>>
    /\ escaped = "none"
    /\ plugin_config = <<>>
    /\ global_config = <<>>
    /\ table = <<>>

\* the bulk linker takes no part in a run
LinkUnused ==
    /\ args = <<>>
    /\ pending = {}
    /\ lyrics_index = <<>>
    /\ cover_done_dirs = {}
    /\ stats = <<>>

\* A configured rule set, a pair of primary paths and a filesystem; nothing planned yet.
Init ==
    /\ \E S \in FeatureSets, pair \in AudioPairs :
          /\ fs = WithAudio(Overlay(BaseFs, S), pair[2])
          /\ srcAudio = pair[1]
          /\ dstAudio = pair[2]
    /\ fs0 = fs
    /\ rules \in RuleLists(RulePool, MaxRules)
    /\ metadata = NoMetadata
    /\ conflict = "rename"
    /\ plan = Idle
    /\ ops = <<>>
    /\ idx = 0
    /\ resolved = <<>>
    /\ guarded = <<>>
    /\ exc = "none"
    /\ pc = "start"
    /\ raw = <<>>
    /\ loaded = NotLoaded
    /\ verdict = Ok
    /\ HookUnused
    /\ LinkUnused

\* plan_sidecar_ops carrying out the operations of the first rule while it plans
PlanWithApplyingFirst(metas) ==
    /\ pc = "start"
    /\ \E meta \in metas, cpol \in Policies :
          /\ metadata' = meta
          /\ conflict' = cpol
          /\ plan' = PlanSidecarOps(fs, srcAudio, dstAudio, rules, meta, cpol)
          /\ fs' = ApplyOps(fs, PlanSidecarOps(fs, srcAudio, dstAudio,
                                              IF rules = <<>> THEN <<>> ELSE <<rules[1]>>,
                                              meta, cpol).ops, 1).fs
    /\ ops' = plan'.ops
    /\ pc' = IF plan'.status = "ok" THEN "applying" ELSE "rejected"
    /\ UNCHANGED <<fs0, srcAudio, dstAudio, rules, idx, resolved, guarded, exc,
                   raw, loaded, verdict>>
    /\ UNCHANGED <<hookVars, linkVars>>

\* plan_sidecar_ops(src_audio_path, dst_audio_path, rules, metadata, conflict): the
\* operations go on to apply_ops, a ConfigError ends the run
PlanWith(metas) ==
    /\ pc = "start"
    /\ \E meta \in metas, cpol \in Policies :
          /\ metadata' = meta
          /\ conflict' = cpol
          /\ plan' = PlanSidecarOps(fs, srcAudio, dstAudio, rules, meta, cpol)
    /\ ops' = plan'.ops
    /\ pc' = IF plan'.status = "ok" THEN "applying" ELSE "rejected"
    /\ UNCHANGED <<fs, fs0, srcAudio, dstAudio, rules, idx, resolved, guarded, exc,
                   raw, loaded, verdict>>
    /\ UNCHANGED <<hookVars, linkVars>>

Plan == PlanWith(Metadatas)

\* what exists at and beneath a path
Snapshot(f, p) ==
    LET w == Stat(f, p)
    IN  IF w.found THEN Restrict(f, Below(f, w.at)) ELSE Restrict(f, {})

\* one iteration of apply_ops that catches the exception and goes on to the next
\* operation
ApplyStepSwallows ==
    /\ pc = "applying"
    /\ idx < Len(ops)
    /\ \E r \in {ApplyOp(fs, ops[idx + 1])} :
          /\ fs' = r.fs
          /\ resolved' = Append(resolved, [skip |-> r.skip, ret |-> r.ret])
          /\ exc' = r.exc
    /\ pc' = "applying"
    /\ guarded' = Append(guarded, Snapshot(fs, ops[idx + 1].dst))
    /\ idx' = idx + 1
    /\ UNCHANGED <<fs0, srcAudio, dstAudio, rules, metadata, conflict, plan, ops,
                   raw, loaded, verdict>>
    /\ UNCHANGED <<hookVars, linkVars>>

\* apply_ops, one iteration of "for op in ops": _apply_file or _apply_tree; an
\* exception leaves the loop
ApplyStep ==
    /\ pc = "applying"
    /\ idx < Len(ops)
    /\ \E r \in {ApplyOp(fs, ops[idx + 1])} :
          /\ fs' = r.fs
          /\ resolved' = Append(resolved, [skip |-> r.skip, ret |-> r.ret])
          /\ exc' = r.exc
          /\ pc' = IF r.exc = "none" THEN "applying" ELSE "raised"
    /\ guarded' = Append(guarded, Snapshot(fs, ops[idx + 1].dst))
    /\ idx' = idx + 1
    /\ UNCHANGED <<fs0, srcAudio, dstAudio, rules, metadata, conflict, plan, ops,
                   raw, loaded, verdict>>
    /\ UNCHANGED <<hookVars, linkVars>>

\* apply_ops returns when the operations are exhausted
ApplyReturn ==
    /\ pc = "applying"
    /\ idx = Len(ops)
    /\ pc' = "done"
    /\ UNCHANGED <<fs, fs0, srcAudio, dstAudio, rules, metadata, conflict, plan, ops,
                   idx, resolved, guarded, exc, raw, loaded, verdict>>
    /\ UNCHANGED <<hookVars, linkVars>>

Next == Plan \/ ApplyStep \/ ApplyReturn

Spec == Init /\ [][Next]_vars

---------------------------------------------------------------------------
(* Properties of planning *)

\* the planner has run
PlanReturned == pc # "start"

\* the enabled file rules of the run (neither embedded nor tree)
FileRules == {k \in 1..Len(rules) : rules[k].enabled /\ ~rules[k].embedded /\ ~IsTree(rules[k])}

\* a glob match of an enabled file rule resolves outside the resolved source directory
EscapingMatch ==
    \E k \in FileRules :
        \E m \in Glob(fs0, PathJoin(Parent(srcAudio),
                                    Expand(NormalizeMask(rules[k].filemask), BaseNoExt(srcAudio)))) :
            ~IsPrefix(ResolvePath(fs0, Parent(srcAudio)), ResolvePath(fs0, m))

\* C1: every FileOp that plan_sidecar_ops returns has a source that resolves inside the
\* resolved directory of the source primary file, and a glob match of an enabled file
\* rule that resolves outside it ('..' in the mask, a symlink) makes the call raise
\* ConfigError, with no operation returned.
C1_SourcesInside ==
    PlanReturned =>
        /\ \A i \in 1..Len(plan.ops) :
              plan.ops[i].type = "file" =>
                  IsPrefix(ResolvePath(fs0, Parent(srcAudio)), ResolvePath(fs0, plan.ops[i].src))
        /\ EscapingMatch => plan.status = "ConfigError" /\ plan.ops = <<>>

\* a plan was refused because a match escaped
C1_Witness ==
    /\ pc = "rejected"
    /\ plan.err.msg = "Matched file escapes source directory"
    /\ EscapingMatch

\* the mask of the tree rule that climbs out of the source directory
UpTreeMask == Str("../{base}.extras/**")

\* the run has an enabled tree rule with that mask
HasUpTree == \E k \in 1..Len(rules) : rules[k].enabled /\ ~rules[k].embedded /\ rules[k].filemask = UpTreeMask

\* "../<base>.extras" leads back into the source directory: the source directory is the
\* root, or is itself named "<base>.extras"
UpTreeInside ==
    LET src_dir == Parent(srcAudio)
    IN  \/ src_dir = Root
        \/ Name(src_dir) = BaseNoExt(srcAudio) \o Str(".extras")

\* C2 as stated: with an enabled tree rule "../{base}.extras/**", plan_sidecar_ops raises
\* ConfigError and returns no operation, whatever the base name and source directory.
C2_AlwaysRefused == PlanReturned /\ HasUpTree => plan.status = "ConfigError" /\ plan.ops = <<>>

\* C2 (amended): with an enabled tree rule "../{base}.extras/**", plan_sidecar_ops raises
\* ConfigError and returns no operation whenever "../<base>.extras" resolves outside the
\* source directory; when it leads back inside (source directory at the root, or itself
\* named "<base>.extras") that rule raises nothing, and alone it yields a plan.
C2_RefusedWhenOutside ==
    PlanReturned /\ HasUpTree =>
        /\ ~UpTreeInside => plan.status = "ConfigError" /\ plan.ops = <<>>
        /\ UpTreeInside /\ Len(rules) = 1 => plan.status = "ok"

\* the escaping tree rule was refused
C2_Witness ==
    /\ pc = "rejected"
    /\ HasUpTree
    /\ ~UpTreeInside
    /\ plan.err.msg = "Tree path escapes source directory"

\* C13: plan_sidecar_ops creates, moves, copies and deletes nothing; when it raises
\* ConfigError, even at a later rule after earlier rules matched files, the filesystem
\* is as before the call and no operation of that plan is ever executed.
C13_NothingPartiallyApplied ==
    /\ [][ (pc = "start" => fs' = fs) /\ pc # "rejected" ]_vars
    /\ [](pc = "rejected" => fs = fs0 /\ idx = 0 /\ resolved = <<>> /\ plan.ops = <<>>)

\* planning was refused at the second rule although the first rule alone plans
\* operations; nothing has changed
C13_Witness ==
    /\ pc = "rejected"
    /\ Len(rules) = 2
    /\ PlanSidecarOps(fs0, srcAudio, dstAudio, SubSeq(rules, 1, 1), metadata, conflict).ops # <<>>
    /\ fs = fs0

---------------------------------------------------------------------------
(* Properties of planning followed by applying *)

\* the glob matches of the enabled file rules in move mode
MovedMatches ==
    UNION { Glob(fs0, PathJoin(Parent(srcAudio),
                               Expand(NormalizeMask(rules[k].filemask), BaseNoExt(srcAudio)))) :
            k \in {j \in FileRules : rules[j].move_mode = sMove} }

\* where a match belongs: dst_dir / its sub-directory below the source directory / its
\* name with the source base name replaced by the destination base name
Target(m) ==
    LET rel == SubSeq(m, Len(Parent(srcAudio)) + 1, Len(m))
    IN  Parent(dstAudio) \o Parent(rel)
            \o <<Replace(Name(m), BaseNoExt(srcAudio), BaseNoExt(dstAudio))>>

\* the match is gone from its source path and its bytes are at the target
Arrived(m) ==
    /\ ~LExists(fs, m)
    /\ IsFile(fs, Target(m))
    /\ IsFile(fs0, m) => fs[Stat(fs, Target(m)).at] = fs0[Stat(fs0, m).at]

\* one path is the other or lies beneath it
Related(a, b) == IsPrefix(a, b) \/ IsPrefix(b, a)

\* the planned operations that read or write p
Touching(p) ==
    {i \in 1..Len(plan.ops) :
        \/ Related(ResolvePath(fs0, plan.ops[i].src), p)
        \/ Related(ResolvePath(fs0, plan.ops[i].dst), p)}

\* C7 as stated: for an enabled file rule in move mode and a destination at which
\* nothing exists, after planning and applying, every matched sidecar is gone from its
\* source path and its bytes are at dst_dir / sub-directory / renamed file name.
C7_MovedToTarget ==
    pc = "done" => \A m \in MovedMatches : ~LExists(fs0, Target(m)) => Arrived(m)

\* C7 (amended): for an enabled file rule in move mode, a matched sidecar that is not
\* reached through a symlink, whose destination is free before the run, and whose source
\* and destination no other planned operation reads or writes, is gone from its source
\* path and has its bytes at dst_dir / sub-directory / renamed file name once apply_ops
\* has returned.
C7_MovedToFreeTarget ==
    pc = "done" =>
        \A m \in MovedMatches :
            /\ ResolvePath(fs0, m) = m
            /\ ~LExists(fs0, Target(m))
            /\ Cardinality(Touching(m) \cup Touching(Target(m))) = 1
            => Arrived(m)

\* a sidecar matched directly, with a free destination that no other planned operation
\* uses, was moved and renamed for the destination base name
C7_Witness ==
    /\ pc = "done"
    /\ \E m \in MovedMatches :
          /\ ResolvePath(fs0, m) = m
          /\ ~LExists(fs0, Target(m))
          /\ Cardinality(Touching(m) \cup Touching(Target(m))) = 1
          /\ Name(Target(m)) # Name(m)
          /\ Arrived(m)

---------------------------------------------------------------------------
(* apply_ops on its own: any short sequence of operations, under one policy *)

\* what the two directories may hold
ExecFeatures ==
    << FsOf(<< <<P("/s/old.lrc"), File("lyrics")>> >>),
       FsOf(<< <<P("/d/new.lrc"), File("kept")>> >>),
       FsOf(<< <<P("/d/new (1).lrc"), File("first")>> >>),
       FsOf(<< <<P("/s/old.extras"), Dir>>, <<P("/s/old.extras/n.txt"), File("notes")>> >>),
       FsOf(<< <<P("/d/new.extras"), Dir>>, <<P("/d/new.extras/k.txt"), File("keep")>> >>) >>

ExecBase == FsOf(<< <<Root, Dir>>, <<P("/s"), Dir>>, <<P("/d"), Dir>> >>)

RECURSIVE ExecOverlay(_, _)
ExecOverlay(f, S) ==
    IF S = {} THEN f
    ELSE LET i == CHOOSE x \in S : TRUE
         IN  ExecOverlay(ExecFeatures[i] @@ f, S \ {i})

\* the operations a caller may pass, each under the given policy
OpPool(cpol) ==
    {FileOp(s, d, m, cpol) :
        s \in {P("/s/old.lrc"), P("/d/new.lrc")},
        d \in {P("/d/new.lrc"), P("/s/old.lrc"), P("/d/sub/new.lrc")},
        m \in {sMove, sCopy}}
    \cup
    {TreeOp(s, d, m, cpol) :
        s \in {P("/s/old.extras")},
        d \in {P("/d/new.extras"), P("/s/old.extras")},
        m \in {sMove, sCopy}}

\* at most this many operations in a sequence
MaxOps == 2

\* apply_ops is called with a sequence of operations on some filesystem
InitExec ==
    /\ \E S \in {T \in SUBSET (1..Len(ExecFeatures)) : Cardinality(T) <= MaxFeatures} :
          fs = ExecOverlay(ExecBase, S)
    /\ fs0 = fs
    /\ conflict \in Policies
    /\ ops \in UNION {[1..k -> OpPool(conflict)] : k \in 0..MaxOps}
    /\ srcAudio = <<>>
    /\ dstAudio = <<>>
    /\ rules = <<>>
    /\ metadata = NoMetadata
    /\ plan = Idle
    /\ idx = 0
    /\ resolved = <<>>
    /\ guarded = <<>>
    /\ exc = "none"
    /\ pc = "applying"
    /\ raw = <<>>
    /\ loaded = NotLoaded
    /\ verdict = Ok
    /\ HookUnused
    /\ LinkUnused

NextExec == ApplyStep \/ ApplyReturn

SpecExec == InitExec /\ [][NextExec]_vars

---------------------------------------------------------------------------
(* Properties of applying *)

\* what operation i found at and beneath its destination is still there, unchanged
Kept(i) == \A p \in DOMAIN guarded[i] : p \in DOMAIN fs /\ fs[p] = guarded[i][p]

\* p is, holds or lies in the source of a move operation that has been applied
MovedAway(p) ==
    \E j \in 1..idx : ops[j].mode # sCopy /\ Related(p, ResolvePath(fs0, ops[j].src))

\* C3 as stated: under policy skip or rename, every file or directory that existed at a
\* destination path before its operation ran is still at that path, with unchanged
\* content, after the whole sequence has been applied.
C3_DestinationsKept ==
    pc = "done" /\ conflict \in {"skip", "rename"} => \A i \in 1..Len(guarded) : Kept(i)

\* C3 (amended): under policy skip or rename, every file or directory that existed at or
\* beneath a destination path before its operation ran is still at that path with
\* unchanged content at every point of apply_ops, unless it is, holds or lies in the
\* source of a move operation of the sequence (which takes it away as asked).
C3_DestinationsKeptUnlessMoved ==
    conflict \in {"skip", "rename"} =>
        \A i \in 1..Len(guarded) :
            \A p \in DOMAIN guarded[i] :
                MovedAway(p) \/ (p \in DOMAIN fs /\ fs[p] = guarded[i][p])

\* an operation met an existing destination under rename, wrote next to it, and the
\* sequence ended
C3_Witness ==
    /\ pc = "done"
    /\ conflict = "rename"
    /\ \E i \in 1..Len(guarded) :
          /\ DOMAIN guarded[i] # {}
          /\ ~resolved[i].skip
          /\ resolved[i].ret # ops[i].dst
          /\ Exists(fs, resolved[i].ret)
          /\ Kept(i)

\* the next operation of apply_ops
NextOp == ops[idx + 1]

\* C8: under policy skip, applying a file or tree operation whose destination exists
\* changes nothing: the filesystem afterwards is the filesystem before (source and
\* destination as they were, no new path), and nothing is raised.
C8_SkipChangesNothing ==
    [][ (pc = "applying" /\ idx < Len(ops) /\ NextOp.conflict = "skip" /\ Exists(fs, NextOp.dst))
            => (fs' = fs /\ exc' = "none" /\ pc' = "applying") ]_vars

\* a file operation and a tree operation were both skipped over existing destinations
C8_Witness ==
    /\ \E i \in 1..idx : ops[i].type = "file" /\ resolved[i].skip /\ DOMAIN guarded[i] # {}
    /\ \E i \in 1..idx : ops[i].type = "tree" /\ resolved[i].skip /\ DOMAIN guarded[i] # {}
    /\ fs = fs0

\* the subtree at a in f is the subtree at b in g
SameTree(f, a, g, b) ==
    /\ {Rebase(p, a, b) : p \in Below(f, a)} = Below(g, b)
    /\ \A p \in Below(f, a) : g[Rebase(p, a, b)] = f[p]

\* C9 as stated: under policy overwrite, applying a move operation whose destination
\* exists removes the destination and places the source there: afterwards the
\* destination holds the source's content and the source path no longer exists.
C9_OverwriteReplaces ==
    [][ (/\ pc = "applying" /\ idx < Len(ops)
         /\ NextOp.conflict = "overwrite" /\ NextOp.mode = sMove
         /\ Exists(fs, NextOp.dst) /\ Exists(fs, NextOp.src))
            => (/\ exc' = "none"
                /\ ~LExists(fs', NextOp.src)
                /\ Exists(fs', NextOp.dst)
                /\ SameTree(fs, Stat(fs, NextOp.src).at, fs', Stat(fs', NextOp.dst).at)) ]_vars

---------------------------------------------------------------------------
(* apply_ops on longer sequences of operations, some of which fail *)

\* operations that use up each other's source
SeqPool(cpol) ==
    { FileOp(P("/s/old.lrc"), P("/d/new.lrc"), sMove, cpol),
      FileOp(P("/s/old.lrc"), P("/d/new.lrc"), sCopy, cpol),
      FileOp(P("/s/old.lrc"), P("/d/sub/new.lrc"), sMove, cpol),
      FileOp(P("/d/new.lrc"), P("/s/old.lrc"), sCopy, cpol),
      TreeOp(P("/s/old.extras"), P("/d/new.extras"), sMove, cpol) }

\* at most this many operations in such a sequence
MaxSeq == 3

InitSeq ==
    /\ \E S \in SUBSET {1, 2, 4} : fs = ExecOverlay(ExecBase, S)
    /\ fs0 = fs
    /\ conflict \in Policies
    /\ ops \in UNION {[1..k -> SeqPool(conflict)] : k \in 0..MaxSeq}
    /\ srcAudio = <<>>
    /\ dstAudio = <<>>
    /\ rules = <<>>
    /\ metadata = NoMetadata
    /\ plan = Idle
    /\ idx = 0
    /\ resolved = <<>>
    /\ guarded = <<>>
    /\ exc = "none"
    /\ pc = "applying"
    /\ raw = <<>>
    /\ loaded = NotLoaded
    /\ verdict = Ok
    /\ HookUnused
    /\ LinkUnused

SpecSeq == InitSeq /\ [][NextExec]_vars

\* the first n operations applied one after the other to the filesystem the call
\* started with
Prefix(n) == ApplyOps(fs0, SubSeq(ops, 1, n), 1)

\* C14: apply_ops applies the operations in list order and is not transactional: the
\* filesystem is at every point what the operations started so far made of it, in
\* order; when operation k raises, the exception is the caller's, what operations
\* 1..k-1 did remains, and no later operation is applied.
C14_InOrderNoRollback ==
    /\ [](/\ fs = Prefix(idx).fs
          /\ pc = "raised" =>
                /\ exc # "none" /\ exc = Prefix(idx).exc
                /\ Prefix(idx - 1).exc = "none"
                /\ fs = ApplyOp(Prefix(idx - 1).fs, ops[idx]).fs
          /\ pc = "done" => exc = "none" /\ idx = Len(ops))
    /\ [][pc # "raised" /\ idx' \in {idx, idx + 1}]_vars

\* the first of three operations moved a file, the second raised, the third was never
\* started; the file is where the first operation put it
C14_Witness ==
    /\ pc = "raised"
    /\ Len(ops) = 3
    /\ idx = 2
    /\ ops[1].mode = sMove
    /\ Exists(fs0, ops[1].src) /\ ~Exists(fs, ops[1].src)
    /\ ~Exists(fs0, resolved[1].ret) /\ Exists(fs, resolved[1].ret)
    /\ Len(resolved) = 2

---------------------------------------------------------------------------
(* apply_ops under policy rename, with candidate names already taken *)

\* existing destinations: a file with an extension, a file without, a directory whose
\* name has a dot; each given as directory, stem, extension to split off, node
RenameTargets ==
    { [dir |-> P("/d"), stem |-> Str("new"), ext |-> Str(".lrc"), node |-> File("kept")],
      [dir |-> P("/d"), stem |-> Str("new"), ext |-> <<>>, node |-> File("kept")],
      [dir |-> P("/d"), stem |-> Str("new.extras"), ext |-> <<>>, node |-> Dir] }

TargetPath(t) == Append(t.dir, t.stem \o t.ext)

\* the n-th candidate next to a target: "stem (n)ext"
Numbered(t, n) == Append(t.dir, t.stem \o Str(" (") \o IntToStr(n) \o Str(")") \o t.ext)

\* the low candidate numbers that may be taken in any combination
MaxTaken == 3

\* which candidates exist: any of the low ones and, next to the file with an extension,
\* also all of them and all but the last
TakenSets(t) ==
    (SUBSET (1..MaxTaken))
        \cup (IF t.ext # <<>> THEN {1..(RenameRangeEnd - 1), 1..(RenameRangeEnd - 2)} ELSE {})

\* the filesystem with the sources, the target and the taken candidates
RenameFs(t, taken) ==
    LET base == FsOf(<< <<Root, Dir>>, <<P("/s"), Dir>>, <<P("/d"), Dir>>,
                        <<P("/s/old.lrc"), File("lyrics")>>,
                        <<P("/s/old.extras"), Dir>>,
                        <<P("/s/old.extras/n.txt"), File("notes")>>,
                        <<TargetPath(t), t.node>> >>)
        cands == {Numbered(t, n) : n \in taken}
    IN  [p \in DOMAIN base \cup cands |-> IF p \in DOMAIN base THEN base[p] ELSE File("taken")]

\* one operation onto an existing destination, policy rename
InitRename ==
    /\ \E t \in RenameTargets, m \in {sMove, sCopy} :
          /\ \E taken \in TakenSets(t) : fs = RenameFs(t, taken)
          /\ ops = << IF t.node.kind = "dir"
                      THEN TreeOp(P("/s/old.extras"), TargetPath(t), m, "rename")
                      ELSE FileOp(P("/s/old.lrc"), TargetPath(t), m, "rename") >>
    /\ fs0 = fs
    /\ conflict = "rename"
    /\ srcAudio = <<>>
    /\ dstAudio = <<>>
    /\ rules = <<>>
    /\ metadata = NoMetadata
    /\ plan = Idle
    /\ idx = 0
    /\ resolved = <<>>
    /\ guarded = <<>>
    /\ exc = "none"
    /\ pc = "applying"
    /\ raw = <<>>
    /\ loaded = NotLoaded
    /\ verdict = Ok
    /\ HookUnused
    /\ LinkUnused

SpecRename == InitRename /\ [][NextExec]_vars

---------------------------------------------------------------------------
(* Properties of the rename policy *)

\* the target the single operation of the run writes to
TargetOf(dst) == CHOOSE t \in RenameTargets : TargetPath(t) = dst /\ t.node = fs0[dst]

\* the n-th candidate was taken before the run
Taken(t, n) == Numbered(t, n) \in DOMAIN fs0

\* the candidate numbers of the loop
CandidateRange == 1..(RenameRangeEnd - 1)

\* C10: under policy rename with an existing destination, _resolve_conflict returns
\* "name (n).ext" ("name (n)" for a directory or a name without extension) for the
\* smallest n in 1..9999 whose candidate does not exist, the original destination stays
\* as it was, and when all 9,999 candidates exist RuntimeError is raised and nothing is
\* written.
C10_SmallestFreeCandidate ==
    idx = 1 /\ DOMAIN guarded[1] # {} =>
        LET t == TargetOf(ops[1].dst)
        IN  /\ Kept(1)
            /\ IF \A n \in CandidateRange : Taken(t, n)
               THEN exc = "RuntimeError" /\ fs = fs0
               ELSE /\ exc = "none"
                    /\ \E n \in CandidateRange :
                          /\ ~Taken(t, n)
                          /\ \A k \in 1..(n - 1) : Taken(t, k)
                          /\ resolved[1].ret = Numbered(t, n)
                          /\ Numbered(t, n) \in DOMAIN fs

\* candidates 1 and 3 were taken next to a directory, and the operation wrote to
\* candidate 2
C10_Witness ==
    /\ idx = 1
    /\ exc = "none"
    /\ DOMAIN guarded[1] # {}
    /\ fs0[ops[1].dst].kind = "dir"
    /\ Taken(TargetOf(ops[1].dst), 1)
    /\ Taken(TargetOf(ops[1].dst), 3)
    /\ resolved[1].ret = Numbered(TargetOf(ops[1].dst), 2)
    /\ Numbered(TargetOf(ops[1].dst), 2) \in DOMAIN fs

---------------------------------------------------------------------------
(* The rule model on its own: validating, storing, loading and planning a *)
(* rule set                                                                *)

\* rules over a few values of every field
FieldRules ==
    { SidecarRule(l, em, en, mo, tg, ma) :
        l \in {<<>>, Str(" "), Str("L"), Str("q\"\\\t")},
        em \in BOOLEAN,
        en \in BOOLEAN,
        mo \in {sMove, sCopy, Str("mv")},
        tg \in {<<>>, Str(" "), Str("t")},
        ma \in {<<>>, Str(" "), Str("x.lrc"), Str("{base}.lrc"), Str("{base}\\x")} }

\* valid rules whose masks are equal as written, after normalization, or only for the
\* destination base name "b"; a disabled rule and an embedded rule
ConfigPool ==
    { SidecarRule(Str("lyrics"), FALSE, TRUE, sMove, <<>>, Str("{base}.lrc")),
      SidecarRule(Str("text"), FALSE, TRUE, sCopy, <<>>, Str("{base}.lrc")),
      SidecarRule(Str("tail"), FALSE, TRUE, sMove, <<>>, Str("{base}b.lrc")),
      SidecarRule(Str("head"), FALSE, TRUE, sCopy, <<>>, Str("b{base}.lrc")),
      SidecarRule(Str("win"), FALSE, TRUE, sCopy, <<>>, Str("{base}\\b.lrc")),
      SidecarRule(Str("unix"), FALSE, TRUE, sCopy, <<>>, Str("{base}/b.lrc")),
      SidecarRule(Str("off"), FALSE, FALSE, sCopy, <<>>, Str("{base}.lrc")),
      SidecarRule(Str("cover"), TRUE, TRUE, sMove, Str("coverart"), <<>>) }

\* sidecars for every mask above, for the base names "old" and "a"
ConfigFs ==
    FsOf(<< <<Root, Dir>>, <<P("/s"), Dir>>, <<P("/d"), Dir>>,
            <<P("/s/old.lrc"), File("lyrics")>>, <<P("/s/a.lrc"), File("lyrics")>>,
            <<P("/s/oldb.lrc"), File("tail")>>, <<P("/s/ab.lrc"), File("tail")>>,
            <<P("/s/bold.lrc"), File("head")>>, <<P("/s/ba.lrc"), File("head")>>,
            <<P("/s/old"), Dir>>, <<P("/s/old/b.lrc"), File("sub")>>,
            <<P("/s/a"), Dir>>, <<P("/s/a/b.lrc"), File("sub")>> >>)

ConfigPairs ==
    { <<P("/s/old.flac"), P("/d/new.flac")>>, <<P("/s/a.flac"), P("/d/b.flac")>> }

InitConfig ==
    /\ rules \in {<<r>> : r \in FieldRules} \cup RuleLists(ConfigPool, MaxRules)
    /\ \E pair \in ConfigPairs : srcAudio = pair[1] /\ dstAudio = pair[2]
    /\ fs = ConfigFs
    /\ fs0 = fs
    /\ metadata = NoMetadata
    /\ conflict = "rename"
    /\ plan = Idle
    /\ ops = <<>>
    /\ idx = 0
    /\ resolved = <<>>
    /\ guarded = <<>>
    /\ exc = "none"
    /\ pc = "start"
    /\ raw = <<>>
    /\ loaded = NotLoaded
    /\ verdict = Ok
    /\ HookUnused
    /\ LinkUnused

\* validate_rules_static(rules)
Validate ==
    /\ pc = "start"
    /\ verdict' = ValidateRulesStatic(rules)
    /\ pc' = "validated"
    /\ UNCHANGED <<fs, fs0, srcAudio, dstAudio, rules, metadata, conflict, plan, ops, idx,
                   resolved, guarded, exc, raw, loaded>>
    /\ UNCHANGED <<hookVars, linkVars>>

\* rules_to_json(rules)
Dump ==
    /\ pc = "validated"
    /\ raw' = RulesToJson(rules)
    /\ pc' = "dumped"
    /\ UNCHANGED <<fs, fs0, srcAudio, dstAudio, rules, metadata, conflict, plan, ops, idx,
                   resolved, guarded, exc, loaded, verdict>>
    /\ UNCHANGED <<hookVars, linkVars>>

\* rules_from_json(raw)
Load ==
    /\ pc = "dumped"
    /\ loaded' = RulesFromJson(raw)
    /\ pc' = "loaded"
    /\ UNCHANGED <<fs, fs0, srcAudio, dstAudio, rules, metadata, conflict, plan, ops, idx,
                   resolved, guarded, exc, raw, verdict>>
    /\ UNCHANGED <<hookVars, linkVars>>

\* plan_sidecar_ops on the rule set as it is, valid or not
PlanRules ==
    /\ pc = "loaded"
    /\ \E cpol \in Policies :
          /\ conflict' = cpol
          /\ plan' = PlanSidecarOps(fs, srcAudio, dstAudio, rules, metadata, cpol)
    /\ ops' = plan'.ops
    /\ pc' = IF plan'.status = "ok" THEN "planned" ELSE "rejected"
    /\ UNCHANGED <<fs, fs0, srcAudio, dstAudio, rules, metadata, idx, resolved, guarded,
                   exc, raw, loaded, verdict>>
    /\ UNCHANGED <<hookVars, linkVars>>

NextConfig == Validate \/ Dump \/ Load \/ PlanRules

SpecConfig == InitConfig /\ [][NextConfig]_vars

---------------------------------------------------------------------------
(* Properties of the rule model *)

\* the rule counts for the uniqueness checks
External(r) == r.enabled /\ ~r.embedded

\* rules i < j are external and their masks, normalized and expanded for the destination
\* base name, are the same string
Collide(i, j) ==
    /\ i < j
    /\ External(rules[i]) /\ External(rules[j])
    /\ Expand(NormalizeMask(rules[i].filemask), BaseNoExt(dstAudio))
         = Expand(NormalizeMask(rules[j].filemask), BaseNoExt(dstAudio))

SomeCollide == \E i, j \in 1..Len(rules) : Collide(i, j)

\* the error names the labels of a colliding pair
NamesBoth ==
    \E i, j \in 1..Len(rules) :
        Collide(i, j) /\ plan.err.labels = <<rules[i].type_label, rules[j].type_label>>

\* plan_sidecar_ops has been called
PlanDone == pc \in {"planned", "rejected"}

\* C4 as stated: when two enabled non-embedded rules have identical filemasks after
\* normalization and substitution of the destination base name, plan_sidecar_ops raises
\* ConfigError before emitting any operation, and the error identifies the type_label of
\* both rules.
C4_DuplicateNamesBoth ==
    PlanDone /\ SomeCollide => plan.status = "ConfigError" /\ plan.ops = <<>> /\ NamesBoth

\* C4 (amended): in that case plan_sidecar_ops raises ConfigError before emitting any
\* operation; the error identifies the type_label of both rules when the rule set passes
\* the static validation (the masks differ as templates), and otherwise it is the static
\* validation's error, which for equal templates names the mask only.
C4_DuplicateRefused ==
    PlanDone /\ SomeCollide =>
        /\ plan.status = "ConfigError" /\ plan.ops = <<>>
        /\ IF verdict.status = "ok"
           THEN NamesBoth /\ plan.err.msg = "Duplicate resolved filemask for this audio file"
           ELSE plan.err = verdict /\ plan.err.labels = <<>>

\* masks that differ as templates collided for the destination base name, and the error
\* names both labels
C4_Witness ==
    /\ pc = "rejected"
    /\ verdict.status = "ok"
    /\ plan.err.msg = "Duplicate resolved filemask for this audio file"
    /\ plan.err.labels = <<Str("tail"), Str("head")>>
    /\ NamesBoth

\* whitespace only, the empty string included
Blank(s) == \A i \in 1..Len(s) : s[i] \in Whitespace

\* the two readings of "empty": the empty string, or (stripped) a blank one
Missing(s, stripped) == IF stripped THEN Blank(s) ELSE s = <<>>

\* a rule breaks an invariant of the data model
RuleViolates(r, stripped) ==
    \/ Missing(r.type_label, stripped)
    \/ r.move_mode \notin {Str("move"), Str("copy")}
    \/ r.embedded /\ (Missing(r.embedded_tag, stripped) \/ ~Missing(r.filemask, stripped))
    \/ ~r.embedded /\ (\/ Missing(r.filemask, stripped)
                       \/ ~Contains(r.filemask, sBase)
                       \/ ~Missing(r.embedded_tag, stripped))

\* a rule set breaks an invariant of the data model
SetViolates(rs, stripped) ==
    \/ Len(rs) = 0
    \/ \E i \in 1..Len(rs) : RuleViolates(rs[i], stripped)
    \/ \E i, j \in 1..Len(rs) :
          /\ i < j /\ External(rs[i]) /\ External(rs[j])
          /\ NormalizeMask(rs[i].filemask) = NormalizeMask(rs[j].filemask)

\* planning a rejected rule set raises ConfigError and constructs no operation
RejectedPlansNothing ==
    PlanDone /\ verdict.status # "ok" => plan.status = "ConfigError" /\ plan.ops = <<>>

\* C5 as stated: validate_rules_static raises ConfigError exactly for the rule sets that
\* are empty, hold a rule with an empty type_label, a move_mode other than move/copy, an
\* empty or forbidden embedded_tag or filemask, a filemask without {base}, or two enabled
\* non-embedded rules with equal normalized filemasks; planning a rejected rule set
\* constructs no operations.
C5_RejectsExactlyEmpty ==
    pc # "start" =>
        /\ verdict.status = "ConfigError" <=> SetViolates(rules, FALSE)
        /\ RejectedPlansNothing

\* C5 (amended): the same, with "empty" read as empty or whitespace only: the fields are
\* stripped before they are compared with "".
C5_RejectsExactlyBlank ==
    pc # "start" =>
        /\ verdict.status = "ConfigError" <=> SetViolates(rules, TRUE)
        /\ RejectedPlansNothing

\* a rule set with a whitespace-only type_label was rejected, and planning it raised
C5_Witness ==
    /\ pc = "rejected"
    /\ verdict.status = "ConfigError"
    /\ \E i \in 1..Len(rules) : rules[i].type_label # <<>> /\ Blank(rules[i].type_label)
    /\ ~SetViolates(rules, FALSE)
    /\ plan.ops = <<>>

\* C6: for a rule set that passes validate_rules_static, rules_from_json(rules_to_json(
\* rules)) is the same list: the same rules, in the same order, every field unchanged.
C6_RoundTrip ==
    pc \in {"loaded", "planned", "rejected"} /\ verdict.status = "ok" =>
        loaded.status = "ok" /\ loaded.rules = rules

\* a valid rule with a quote, a backslash and a tab in its label and a backslash in its
\* mask came back unchanged
C6_Witness ==
    /\ pc = "loaded"
    /\ verdict.status = "ok"
    /\ loaded.rules = rules
    /\ \E i \in 1..Len(rules) :
          rules[i].type_label = Str("q\"\\\t") /\ Contains(rules[i].filemask, Backslash)


---------------------------------------------------------------------------
(* Planning with embedded rules and the file's tags *)

\* the tags the embedded rules ask for
tCover == Str("coverart")

tDate == Str("date")

\* values a tag may map to: truthy ones, and falsy ones ("", None, False, [])
TruthyTagValues == {JStr(Str("x")), JList(<<JStr(Str("x"))>>)}

FalsyTagValues == {JStr(<<>>), JNull, JBool(FALSE), JList(<<>>)}

\* the mappings over these tags: each tag absent, or mapped to one of the values
TagMaps ==
    LET vals == TruthyTagValues \cup FalsyTagValues
    IN  UNION {[T -> vals] : T \in SUBSET {tCover, tDate}}

\* metadata=None or a mapping
TagMetadatas == {NoMetadata} \cup {Metadata(m) : m \in TagMaps}

\* embedded rules (one of them disabled) and a file rule
EmbeddedPool ==
    { SidecarRule(Str("cover"), TRUE, TRUE, sMove, tCover, <<>>),
      SidecarRule(Str("date"), TRUE, TRUE, sMove, tDate, <<>>),
      SidecarRule(Str("nocover"), TRUE, FALSE, sMove, tCover, <<>>),
      SidecarRule(Str("lyrics"), FALSE, TRUE, sMove, <<>>, Str("{base}.lrc")) }

\* a rule set with embedded rules, a moved primary file with or without a sidecar
InitEmbedded ==
    /\ \E S \in SUBSET {1} :
          fs = WithAudio(Overlay(BaseFs, S), P("/d/new.flac"))
    /\ srcAudio = P("/s/old.flac")
    /\ dstAudio = P("/d/new.flac")
    /\ fs0 = fs
    /\ rules \in RuleLists(EmbeddedPool, MaxRules)
    /\ metadata = NoMetadata
    /\ conflict = "rename"
    /\ plan = Idle
    /\ ops = <<>>
    /\ idx = 0
    /\ resolved = <<>>
    /\ guarded = <<>>
    /\ exc = "none"
    /\ pc = "start"
    /\ raw = <<>>
    /\ loaded = NotLoaded
    /\ verdict = Ok
    /\ HookUnused
    /\ LinkUnused

\* plan_sidecar_ops with the file's tags
PlanTagged == PlanWith(TagMetadatas)

NextEmbedded == PlanTagged \/ ApplyStep \/ ApplyReturn

SpecEmbedded == InitEmbedded /\ [][NextEmbedded]_vars

\* the enabled embedded rules of the run
EmbeddedRules == {k \in 1..Len(rules) : rules[k].enabled /\ rules[k].embedded}

\* the tag of rule k is in the mapping with a truthy value
TagTruthy(k) ==
    /\ rules[k].embedded_tag \in DOMAIN metadata.tags
    /\ metadata.tags[rules[k].embedded_tag] \in TruthyTagValues

\* the rule set without rule k
WithoutRule(k) == SubSeq(rules, 1, k - 1) \o SubSeq(rules, k + 1, Len(rules))

\* C11: with a metadata mapping supplied, an enabled embedded rule whose tag is absent
\* from the mapping or maps to a falsy value makes plan_sidecar_ops raise ConfigError,
\* and one whose tag is present with a truthy value adds no operation to the plan (the
\* plan holds the operations of the other rules only).
C11_EmbeddedTagRequired ==
    PlanReturned /\ metadata.given =>
        \A k \in EmbeddedRules :
            /\ ~TagTruthy(k) => plan.status = "ConfigError" /\ plan.ops = <<>>
            /\ plan.status = "ok" =>
                  /\ TagTruthy(k)
                  /\ plan.ops = PlanSidecarOps(fs0, srcAudio, dstAudio, WithoutRule(k),
                                               metadata, conflict).ops

\* after a file rule that matched, an embedded rule whose tag maps to an empty list was
\* refused
C11_Witness ==
    /\ pc = "rejected"
    /\ metadata.given
    /\ plan.err.msg = "Embedded tag missing or empty"
    /\ Len(rules) = 2
    /\ ~rules[1].embedded /\ Exists(fs0, P("/s/old.lrc"))
    /\ rules[2].embedded /\ rules[2].enabled
    /\ rules[2].embedded_tag \in DOMAIN metadata.tags
    /\ metadata.tags[rules[2].embedded_tag] = JList(<<>>)

---------------------------------------------------------------------------
(* Rule sets with a disabled rule added *)

\* disabled rules over a few values of every other field, valid and invalid
DisabledRules ==
    { SidecarRule(l, em, FALSE, mo, tg, ma) :
        l \in {<<>>, Str("L")},
        em \in BOOLEAN,
        mo \in {sMove, Str("mv")},
        tg \in {<<>>, Str("t")},
        ma \in {<<>>, Str("x.lrc"), Str("{base}.lrc")} }

\* the enabled rules the disabled one joins
EnabledPool ==
    { SidecarRule(Str("lyrics"), FALSE, TRUE, sMove, <<>>, Str("{base}.lrc")),
      SidecarRule(Str("tail"), FALSE, TRUE, sCopy, <<>>, Str("{base}b.lrc")),
      SidecarRule(Str("cover"), TRUE, TRUE, sMove, Str("coverart"), <<>>) }

\* rs with rule d put in at position i
InsertRule(rs, i, d) == SubSeq(rs, 1, i - 1) \o <<d>> \o SubSeq(rs, i, Len(rs))

\* a rule set of enabled rules with one disabled rule added anywhere
InitDisabled ==
    /\ \E base \in RuleLists(EnabledPool, MaxRules), d \in DisabledRules :
          \E i \in 1..(Len(base) + 1) : rules = InsertRule(base, i, d)
    /\ srcAudio = P("/s/old.flac")
    /\ dstAudio = P("/d/new.flac")
    /\ fs = ConfigFs
    /\ fs0 = fs
    /\ metadata = NoMetadata
    /\ conflict = "rename"
    /\ plan = Idle
    /\ ops = <<>>
    /\ idx = 0
    /\ resolved = <<>>
    /\ guarded = <<>>
    /\ exc = "none"
    /\ pc = "start"
    /\ raw = <<>>
    /\ loaded = NotLoaded
    /\ verdict = Ok
    /\ HookUnused
    /\ LinkUnused

SpecDisabled == InitDisabled /\ [][NextConfig]_vars

\* the rule set without its disabled rules
EnabledOnly == SelectSeq(rules, LAMBDA r : r.enabled)

\* planning the rule set and planning it without its disabled rules give the same
\* operations and agree on raising ConfigError
SameWithoutDisabled ==
    LET p == PlanSidecarOps(fs0, srcAudio, dstAudio, EnabledOnly, metadata, conflict)
    IN  /\ plan.ops = p.ops
        /\ (plan.status = "ConfigError") <=> (p.status = "ConfigError")

\* every disabled rule of the set satisfies the per-rule field constraints
DisabledValid == \A k \in 1..Len(rules) : ~rules[k].enabled => ValidateRule(rules[k]) = ""

\* C12 as stated: adding a rule with enabled=false, whatever its other fields, changes
\* neither the operations plan_sidecar_ops returns nor whether it raises ConfigError.
C12_DisabledIgnored == PlanDone => SameWithoutDisabled

\* C12 (amended): adding a rule with enabled=false that itself passes validate_rule to a
\* non-empty rule set changes neither the operations plan_sidecar_ops returns nor
\* whether it raises ConfigError.
C12_ValidDisabledIgnored ==
    PlanDone /\ DisabledValid /\ EnabledOnly # <<>> => SameWithoutDisabled

\* a disabled rule with the mask of the enabled lyrics rule before it was planned around:
\* one operation, for the enabled rule
C12_Witness ==
    /\ pc = "planned"
    /\ Len(rules) = 2
    /\ rules[1].enabled /\ ~rules[2].enabled
    /\ ~rules[2].embedded /\ rules[2].filemask = rules[1].filemask
    /\ DisabledValid
    /\ Len(plan.ops) = 1
    /\ SameWithoutDisabled

---------------------------------------------------------------------------
(* The host event hooks and the options page *)

\* the file objects the host saves
HookFiles == {"f1", "f2"}

\* file.filename before and after the host's rename; a filename of "" (or None) is falsy
OldName(f) == IF f = "f1" THEN Str("/s/old.flac") ELSE Str("/s/a.flac")

NewName(f) == IF f = "f1" THEN Str("/d/new.flac") ELSE Str("/d/b.flac")

\* default_rules()
DefaultRules ==
    << SidecarRule(Str("lyrics"), FALSE, TRUE, sMove, <<>>, Str("{base}.lrc")),
       SidecarRule(Str("cue"), FALSE, TRUE, sMove, <<>>, Str("{base}.cue")),
       SidecarRule(Str("nfo"), FALSE, TRUE, sMove, <<>>, Str("{base}.nfo")),
       SidecarRule(Str("xml"), FALSE, TRUE, sMove, <<>>, Str("{base}.xml")),
       SidecarRule(Str("log"), FALSE, TRUE, sMove, <<>>, Str("{base}.log")),
       SidecarRule(Str("m3u"), FALSE, TRUE, sMove, <<>>, Str("{base}.m3u")),
       SidecarRule(Str("booklet"), FALSE, TRUE, sMove, <<>>, Str("{base}.pdf")),
       SidecarRule(Str("checksums_sfv"), FALSE, TRUE, sMove, <<>>, Str("{base}.sfv")),
       SidecarRule(Str("checksums_md5"), FALSE, FALSE, sMove, <<>>, Str("{base}.md5")),
       SidecarRule(Str("cover_embedded"), TRUE, FALSE, sMove, Str("coverart"), <<>>) >>

\* no value stored under an option: the registered default applies
Unset == [t |-> "unset", s |-> <<>>, b |-> FALSE, items |-> <<>>, keys |-> <<>>]

\* api.plugin_config[RULES_KEY] after register_option: the stored value or the default
RulesOption(cfg) ==
    IF cfg.rules_json = Unset THEN JStr(RulesToJson(DefaultRules)) ELSE cfg.rules_json

\* coerce_rules: [status, rules, msg]
CoerceRules(value) ==
    IF value.t = "null" THEN [status |-> "ok", rules |-> DefaultRules, msg |-> ""]
    ELSE IF value.t = "str" THEN RulesFromJson(value.s)
    ELSE [status |-> "ConfigError", rules |-> <<>>, msg |-> "Unsupported rules value"]

\* the test of the one-time warning block
Warns(cfg, setting) ==
    /\ cfg.supersede_additional_files
    /\ ~cfg.warned_about_additional_files
    /\ setting.move_additional_files
    /\ Strip(setting.move_additional_files_pattern) # <<>>

\* a record of api.logger
Logged(level, msg, call) == [level |-> level, msg |-> msg, call |-> call]

\* on_file_post_save with its first except clause only
CatchesConfigErrorOnly(e) == e = "ConfigError"

\* the except clauses of on_file_post_save
Catches(e) ==
    e \in {"ConfigError", "OSError", "RuntimeError", "AttributeError", "TypeError",
           "ValueError"}

\* on_file_post_save from the rule set on: what the body raised, the rule set it
\* planned with, the plan, the filesystem it left and the operations it ran
HookApplied(c, p, r) ==
    [raised |-> r.exc, rules |-> c.rules, plan |-> p, fs |-> r.fs, done |-> r.done]

HookPlanned(f, c, p) ==
    IF p.status # "ok"
    THEN [raised |-> "ConfigError", rules |-> c.rules, plan |-> p, fs |-> f, done |-> 0]
    ELSE HookApplied(c, p, ApplyOps(f, p.ops, 1))

HookLoaded(f, c, src, dst, meta) ==
    IF c.status # "ok"
    THEN [raised |-> "ConfigError", rules |-> <<>>, plan |-> Idle, fs |-> f, done |-> 0]
    ELSE HookPlanned(f, c, PlanSidecarOps(f, SplitPath(src), SplitPath(dst), c.rules,
                                          meta, "rename"))

HookBody(f, cfg, src, dst, meta) ==
    HookLoaded(f, CoerceRules(RulesOption(cfg)), src, dst, meta)

\* at most this many calls of the hooks and the options page in a run
MaxEvents == 3

\* on_file_pre_save keeping one record for all files
PreSaveShared(f) ==
    /\ Len(events) < MaxEvents
    /\ old_paths' = IF filename[f] # <<>> THEN [g \in HookFiles |-> filename[f]]
                    ELSE old_paths
    /\ events' = Append(events, [kind |-> "pre", file |-> f, name |-> filename[f],
                                 src |-> <<>>, raised |-> "none"])
    /\ escaped' = "none"
    /\ UNCHANGED <<fs, fs0, srcAudio, dstAudio, rules, metadata, conflict, plan, ops, idx,
                   resolved, guarded, exc, pc, raw, loaded, verdict>>
    /\ UNCHANGED <<filename, log, plugin_config, global_config, table, linkVars>>

\* on_file_pre_save
PreSave(f) ==
    /\ Len(events) < MaxEvents
    /\ old_paths' = IF filename[f] # <<>> THEN [old_paths EXCEPT ![f] = filename[f]]
                    ELSE old_paths
    /\ events' = Append(events, [kind |-> "pre", file |-> f, name |-> filename[f],
                                 src |-> <<>>, raised |-> "none"])
    /\ escaped' = "none"
    /\ UNCHANGED <<fs, fs0, srcAudio, dstAudio, rules, metadata, conflict, plan, ops, idx,
                   resolved, guarded, exc, pc, raw, loaded, verdict>>
    /\ UNCHANGED <<filename, log, plugin_config, global_config, table, linkVars>>

\* the host saves the file and renames it: file.filename is the new path
HostSave(f) ==
    /\ filename[f] # NewName(f)
    /\ filename' = [filename EXCEPT ![f] = NewName(f)]
    /\ fs' = WithAudio(IF filename[f] # <<>>
                       THEN Restrict(fs, DOMAIN fs \ {SplitPath(filename[f])}) ELSE fs,
                       SplitPath(NewName(f)))
    /\ escaped' = "none"
    /\ UNCHANGED <<fs0, srcAudio, dstAudio, rules, metadata, conflict, plan, ops, idx,
                   resolved, guarded, exc, pc, raw, loaded, verdict>>
    /\ UNCHANGED <<old_paths, events, log, plugin_config, global_config, table, linkVars>>

\* file.metadata: the first file has a date tag and no cover, the second has no
\* metadata attribute
FileMetadata(f) ==
    IF f = "f1" THEN Metadata([t \in {tDate} |-> JStr(Str("x"))]) ELSE NoMetadata

\* on_file_post_save
PostSave(f) ==
    /\ Len(events) < MaxEvents
    /\ \E meta \in {FileMetadata(f)} :
       \E dst \in {filename[f]} :
       \E src \in {IF old_paths[f] # <<>> THEN old_paths[f] ELSE dst} :
          /\ old_paths' = [old_paths EXCEPT ![f] = <<>>]
          /\ IF src = <<>> \/ dst = <<>>
             THEN /\ events' = Append(events, [kind |-> "post", file |-> f, name |-> dst,
                                               src |-> src, raised |-> "none"])
                  /\ escaped' = "none"
                  /\ UNCHANGED <<fs, fs0, srcAudio, dstAudio, rules, metadata, conflict,
                                 plan, ops, idx, exc, log, plugin_config>>
             ELSE \E warn \in {Warns(plugin_config, global_config)} :
                  \E r \in {HookBody(fs, plugin_config, src, dst, meta)} :
                    /\ plugin_config' =
                          IF warn
                          THEN [plugin_config EXCEPT !.warned_about_additional_files = TRUE]
                          ELSE plugin_config
                    /\ events' = Append(events, [kind |-> "post", file |-> f, name |-> dst,
                                                 src |-> src, raised |-> r.raised])
                    /\ log' = log
                              \o (IF warn
                                  THEN <<Logged("warning", "Picard 'Move additional files' is enabled",
                                                Len(events) + 1)>>
                                  ELSE <<>>)
                              \o (IF r.raised = "ConfigError" /\ Catches(r.raised)
                                  THEN <<Logged("error", "configuration error", Len(events) + 1)>>
                                  ELSE IF r.raised # "none" /\ Catches(r.raised)
                                  THEN <<Logged("error", "processing failed", Len(events) + 1)>>
                                  ELSE <<>>)
                    /\ escaped' = IF r.raised = "none" \/ Catches(r.raised) THEN "none"
                                  ELSE r.raised
                    /\ fs0' = fs
                    /\ fs' = r.fs
                    /\ srcAudio' = SplitPath(src)
                    /\ dstAudio' = SplitPath(dst)
                    /\ rules' = r.rules
                    /\ metadata' = meta
                    /\ conflict' = "rename"
                    /\ plan' = r.plan
                    /\ ops' = r.plan.ops
                    /\ idx' = r.done
                    /\ exc' = r.raised
    /\ UNCHANGED <<resolved, guarded, pc, raw, loaded, verdict>>
    /\ UNCHANGED <<filename, global_config, table, linkVars>>

\* SidecarHandlerOptionsPage.load: the rules put into the table
OptionsLoad ==
    /\ Len(events) < MaxEvents
    /\ \E value \in {RulesOption(plugin_config)} :
       \E c \in {IF ~PyBool(value) THEN [status |-> "ok", rules |-> DefaultRules, msg |-> ""]
                 ELSE IF value.t = "str" THEN RulesFromJson(value.s)
                 ELSE [status |-> "ConfigError", rules |-> <<>>, msg |-> "Invalid rules JSON"]} :
          table' = [shown |-> TRUE, rules |-> IF c.status = "ok" THEN c.rules ELSE DefaultRules]
    /\ events' = Append(events, [kind |-> "load", file |-> "", name |-> <<>>,
                                 src |-> <<>>, raised |-> "none"])
    /\ escaped' = "none"
    /\ UNCHANGED <<fs, fs0, srcAudio, dstAudio, rules, metadata, conflict, plan, ops, idx,
                   resolved, guarded, exc, pc, raw, loaded, verdict>>
    /\ UNCHANGED <<old_paths, filename, log, plugin_config, global_config, linkVars>>

\* what the directories hold when the host saves: the two primary files with their
\* lyrics, and a file already named like the moved lyrics of the first
HookFs ==
    FsOf(<< <<Root, Dir>>, <<P("/s"), Dir>>, <<P("/d"), Dir>>,
            <<P("/s/old.flac"), File("audio")>>, <<P("/s/a.flac"), File("audio")>>,
            <<P("/s/old.lrc"), File("lyrics")>>, <<P("/s/a.lrc"), File("words")>>,
            <<P("/d/new.lrc"), File("kept")>> >>)

\* rule sets written by the options page
CustomRules ==
    { << SidecarRule(Str("lyrics"), FALSE, TRUE, sMove, <<>>, Str("{base}.lrc")),
         SidecarRule(Str("any"), FALSE, TRUE, sMove, <<>>, Str("{base}*.lrc")) >>,
      << SidecarRule(Str("lyrics"), FALSE, TRUE, sCopy, <<>>, Str("{base}.lrc")),
         SidecarRule(Str("cover"), TRUE, TRUE, sMove, tCover, <<>>) >> }

\* the stored options and the host's "move additional files" pattern: rules_json not
\* stored, null, a rule set of the options page, text that does not parse or does not
\* validate, a value that is no string
HookConfigs ==
    {<<Unset, b, Str("*.jpg")>> : b \in BOOLEAN}
    \cup {<<Unset, TRUE, Str(" ")>>, <<JNull, FALSE, <<>>>>}
    \cup {<<JStr(RulesToJson(rs)), FALSE, <<>>>> : rs \in CustomRules}
    \cup {<<JStr(Str("[")), FALSE, <<>>>>, <<JStr(Str("[]")), TRUE, Str("*.jpg")>>,
          <<JBool(TRUE), FALSE, <<>>>>}

InitHook ==
    /\ fs = HookFs
    /\ fs0 = fs
    /\ \E n \in {OldName("f2"), <<>>} :
          filename = [f \in HookFiles |-> IF f = "f2" THEN n ELSE OldName(f)]
    /\ old_paths = [f \in HookFiles |-> <<>>]
    /\ events = <<>>
    /\ log = <<>>
    /\ escaped = "none"
    /\ \E c \in HookConfigs :
          /\ plugin_config = [rules_json |-> c[1], supersede_additional_files |-> c[2],
                              warned_about_additional_files |-> FALSE]
          /\ global_config = [move_additional_files |-> TRUE,
                              move_additional_files_pattern |-> c[3]]
    /\ table = [shown |-> FALSE, rules |-> <<>>]
    /\ srcAudio = <<>>
    /\ dstAudio = <<>>
    /\ rules = <<>>
    /\ metadata = NoMetadata
    /\ conflict = "rename"
    /\ plan = Idle
    /\ ops = <<>>
    /\ idx = 0
    /\ resolved = <<>>
    /\ guarded = <<>>
    /\ exc = "none"
    /\ pc = "hook"
    /\ raw = <<>>
    /\ loaded = NotLoaded
    /\ verdict = Ok
    /\ LinkUnused

NextHook == \/ \E f \in HookFiles : PreSave(f) \/ HostSave(f) \/ PostSave(f)
            \/ OptionsLoad

SpecHook == InitHook /\ [][NextHook]_vars

---------------------------------------------------------------------------
(* Properties of the hooks *)

\* the calls of on_file_post_save made so far
PostCalls == {i \in 1..Len(events) : events[i].kind = "post"}

\* C15: on_file_post_save never lets a ConfigError, OSError or RuntimeError out: when
\* rule loading, planning or execution raised one, the call logged an error and
\* returned normally.
C15_ErrorsCaughtAndLogged ==
    /\ escaped = "none"
    /\ \A i \in PostCalls :
          events[i].raised \in {"ConfigError", "OSError", "RuntimeError"} =>
              \E k \in 1..Len(log) :
                  /\ log[k].call = i
                  /\ log[k].level = "error"
                  /\ log[k].msg = IF events[i].raised = "ConfigError"
                                  THEN "configuration error" ELSE "processing failed"

\* the last call moved one sidecar and failed with OSError on the next operation
C15_Witness ==
    /\ events # <<>>
    /\ events[Len(events)].kind = "post"
    /\ events[Len(events)].raised = "OSError"
    /\ exc = "OSError"
    /\ idx = 2
    /\ fs # fs0
    /\ escaped = "none"

\* the step is a call of on_file_post_save for f
PostSaveOf(f) ==
    /\ Len(events') = Len(events) + 1
    /\ events'[Len(events')].kind = "post"
    /\ events'[Len(events')].file = f

\* C16: a call of on_file_post_save for a file with no recorded pre-save path does
\* nothing: the filesystem is after the call what it was before.
C16_NoRecordNothingDone ==
    [][\A f \in HookFiles : PostSaveOf(f) /\ old_paths[f] = <<>> => fs' = fs]_vars

\* the calls before call i that recorded a path for the file of call i and were not
\* followed by a post-save of that file before call i
Recorded(i) ==
    {j \in 1..(i - 1) :
        /\ events[j].kind = "pre"
        /\ events[j].file = events[i].file
        /\ events[j].name # <<>>
        /\ \A k \in (j + 1)..(i - 1) :
              ~(events[k].kind = "post" /\ events[k].file = events[i].file)}

\* C17: every post-save takes as source the path recorded by the latest pre-save of the
\* same file since that file's previous post-save, and the file's own new path if
\* there is none: never a path recorded for another file, never a record already used.
C17_KeyedPerFile ==
    \A i \in PostCalls :
        events[i].src =
            IF Recorded(i) = {} THEN events[i].name
            ELSE events[CHOOSE j \in Recorded(i) : \A k \in Recorded(i) : k <= j].name

\* both files were pre-saved at different paths, the first was renamed, and its
\* post-save took its own old path
C17_Witness ==
    /\ Len(events) = 3
    /\ events[1].kind = "pre" /\ events[1].file = "f1"
    /\ events[2].kind = "pre" /\ events[2].file = "f2" /\ events[2].name = OldName("f2")
    /\ events[3].kind = "post" /\ events[3].file = "f1"
    /\ events[3].name = NewName("f1")
    /\ events[3].src = OldName("f1")
    /\ srcAudio = SplitPath(OldName("f1"))

\* the stored rules_json is text that does not parse or does not validate
StoredInvalid ==
    /\ plugin_config.rules_json.t = "str"
    /\ RulesFromJson(plugin_config.rules_json.s).status # "ok"

\* C18: stored rules JSON that fails to parse or to validate is replaced by the default
\* rule set wherever it is loaded: the options page shows the default rules and the
\* post-save hook plans with them.
C18_InvalidStoredReplacedByDefaults ==
    StoredInvalid =>
        /\ table.shown => table.rules = DefaultRules
        /\ (\E i \in PostCalls : events[i].name # <<>>) => rules = DefaultRules

---------------------------------------------------------------------------
(* sidecar_links.py: the bulk linker *)

sLrc == Str(".lrc")

\* str.lower on the letters of the alphabet used here
LowerChar(c) ==
    IF c = "B" THEN "b" ELSE IF c = "F" THEN "f" ELSE IF c = "L" THEN "l"
    ELSE IF c = "N" THEN "n" ELSE IF c = "T" THEN "t" ELSE c

Lower(s) == [i \in 1..Len(s) |-> LowerChar(s[i])]

\* PurePath.with_suffix
WithSuffix(p, suffix) == WithName(p, Stem(Name(p)) \o suffix)

\* AUDIO_EXTS_DEFAULT
AudioExts ==
    {Str(".flac"), Str(".mp3"), Str(".m4a"), Str(".ogg"), Str(".opus"), Str(".wav"),
     Str(".aiff"), Str(".ape"), Str(".wv")}

\* variant of the default list for comparison: the folder and front names ahead of the
\* cover names
CoverCandidatesCoverLast ==
    <<Str("folder.jpg"), Str("folder.png"), Str("front.jpg"), Str("front.png"),
      Str("cover.jpg"), Str("cover.png")>>

\* COVER_CANDIDATES_DEFAULT
CoverCandidates ==
    <<Str("cover.jpg"), Str("cover.png"), Str("folder.jpg"), Str("folder.png"),
      Str("front.jpg"), Str("front.png")>>

\* _is_broken_symlink
IsBrokenSymlink(f, p) == IsLink(f, p) /\ ~Exists(f, p)

\* a test that sees only what exists() sees
LinkTakenIfExists(f, p) == Exists(f, p)

\* "dst.exists() or _is_broken_symlink(dst)"
LinkTaken(f, p) == Exists(f, p) \/ IsBrokenSymlink(f, p)

\* _rename_candidate of sidecar_links.py
LinkRenameCandidate(path, n) ==
    LET tag == Str(" (") \o IntToStr(n) \o Str(")")
    IN  IF Suffix(Name(path)) # <<>>
        THEN WithName(path, Stem(Name(path)) \o tag \o Suffix(Name(path)))
        ELSE WithName(path, Name(path) \o tag)

\* the rename branch of _resolve_conflict of sidecar_links.py
LinkFreeCandidate(f, dst) ==
    IF \E i \in 1..(RenameRangeEnd - 1) : ~LinkTaken(f, LinkRenameCandidate(dst, i))
    THEN LET n == CHOOSE i \in 1..(RenameRangeEnd - 1) :
                      /\ ~LinkTaken(f, LinkRenameCandidate(dst, i))
                      /\ \A k \in 1..(i - 1) : LinkTaken(f, LinkRenameCandidate(dst, k))
         IN  [fs |-> f, exc |-> "none", skip |-> FALSE, ret |-> LinkRenameCandidate(dst, n)]
    ELSE [fs |-> f, exc |-> "RuntimeError", skip |-> FALSE, ret |-> <<>>]

\* _resolve_conflict of sidecar_links.py: [fs, exc, skip, ret]
LinkResolveConflict(f, dst, cpol) ==
    IF ~LinkTaken(f, dst) THEN [fs |-> f, exc |-> "none", skip |-> FALSE, ret |-> dst]
    ELSE IF cpol = "skip" THEN [fs |-> f, exc |-> "none", skip |-> TRUE, ret |-> <<>>]
    ELSE IF cpol = "overwrite" THEN Overwrite(f, dst)
    ELSE LinkFreeCandidate(f, dst)

\* _try_symlink: dst.symlink_to(target); OSError where the platform has no symlinks
TrySymlink(f, dst, target, platform) ==
    LET d == LStat(f, dst)
    IN  IF ~platform.symlinks \/ d.found \/ ~d.slot THEN Raise(f, "OSError")
        ELSE Done(Put(f, d.at, Link(target)))

\* _try_hardlink: os.link(target, dst); the new name holds the file itself
TryHardlink(f, dst, target, platform) ==
    LET d == LStat(f, dst)
        t == LStat(f, target)
    IN  IF ~platform.hardlinks \/ d.found \/ ~d.slot THEN Raise(f, "OSError")
        ELSE IF ~t.found \/ f[t.at].kind = "dir" THEN Raise(f, "OSError")
        ELSE Done(Put(f, d.at, f[t.at]))

\* the link types from "if link_type == ..." on, auto with its two fallbacks
MakeLink(f, dst, target, link_type, platform) ==
    IF link_type = "symlink" THEN TrySymlink(f, dst, target, platform)
    ELSE IF link_type = "hardlink" THEN TryHardlink(f, dst, target, platform)
    ELSE IF link_type = "copy" THEN Copy2(f, target, dst)
    ELSE IF TrySymlink(f, dst, target, platform).exc = "none"
         THEN TrySymlink(f, dst, target, platform)
    ELSE IF TryHardlink(f, dst, target, platform).exc = "none"
         THEN TryHardlink(f, dst, target, platform)
    ELSE Copy2(f, target, dst)

\* _create_link_or_copy: [fs, exc, made]; made is the boolean it returns
CreateLinkOrCopy(f, dst, target, link_type, cpol, platform) ==
    LET t == ResolvePath(f, target)
        rc == LinkResolveConflict(f, dst, cpol)
        par == EnsureParent(rc.fs, rc.ret)
        made == MakeLink(par.fs, rc.ret, t, link_type, platform)
    IN  IF rc.exc # "none" THEN [fs |-> rc.fs, exc |-> rc.exc, made |-> FALSE]
        ELSE IF rc.skip THEN [fs |-> f, exc |-> "none", made |-> FALSE]
        ELSE IF par.exc # "none" THEN [fs |-> par.fs, exc |-> par.exc, made |-> FALSE]
        ELSE IF LinkTaken(par.fs, rc.ret)
             THEN [fs |-> par.fs, exc |-> "RuntimeError", made |-> FALSE]
        ELSE [fs |-> made.fs, exc |-> made.exc, made |-> made.exc = "none"]

\* the entries rglob finds under root: symlinked directories are not entered
Walk(f, root) == Below(f, ResolvePath(f, root)) \ {ResolvePath(f, root)}

\* _iter_audio_files
IterAudioFiles(f, root) ==
    {p \in Walk(f, root) : IsFile(f, p) /\ Lower(Suffix(Name(p))) \in AudioExts}

\* the files rglob("*.lrc") yields that are files
LyricsFiles(f, root) ==
    {p \in Walk(f, root) : EndsWith(Name(p), sLrc) /\ IsFile(f, p)}

\* _index_lyrics_files: lowercase stem -> the files with that stem
IndexLyricsFiles(f, root) ==
    [k \in {Lower(Stem(Name(p))) : p \in LyricsFiles(f, root)} |->
        {p \in LyricsFiles(f, root) : Lower(Stem(Name(p))) = k}]

NoPath == [found |-> FALSE, path |-> <<>>]

Found(p) == [found |-> TRUE, path |-> p]

\* _find_lyrics_for_audio taking any of several matches
FindLyricsForAudioAnyMatch(f, audio, index) ==
    LET candidate == WithSuffix(audio, sLrc)
        key == Lower(Stem(Name(audio)))
        matches == IF key \in DOMAIN index THEN index[key] ELSE {}
    IN  IF Exists(f, candidate) THEN Found(candidate)
        ELSE IF matches # {} THEN Found(CHOOSE p \in matches : TRUE)
        ELSE NoPath

\* _find_lyrics_for_audio
FindLyricsForAudio(f, audio, index) ==
    LET candidate == WithSuffix(audio, sLrc)
        key == Lower(Stem(Name(audio)))
        matches == IF key \in DOMAIN index THEN index[key] ELSE {}
    IN  IF Exists(f, candidate) THEN Found(candidate)
        ELSE IF Cardinality(matches) = 1 THEN Found(CHOOSE p \in matches : TRUE)
        ELSE NoPath

\* _find_cover_in_dir
RECURSIVE FindCoverInDir(_, _, _, _)
FindCoverInDir(f, folder, candidates, i) ==
    IF i > Len(candidates) THEN NoPath
    ELSE IF IsFile(f, Append(folder, candidates[i])) THEN Found(Append(folder, candidates[i]))
    ELSE FindCoverInDir(f, folder, candidates, i + 1)

\* what one part of the loop body did: the filesystem and the counters it added to
Part(f, created, skipped, errors) ==
    [fs |-> f, created |-> created, skipped |-> skipped, errors |-> errors]

\* "if _create_link_or_copy(...)" inside its try
Attached(f, r) ==
    IF r.exc # "none" THEN Part(r.fs, 0, 0, 1)
    ELSE IF r.made THEN Part(r.fs, 1, 0, 0)
    ELSE Part(r.fs, 0, 1, 0)

\* the lyrics part of the loop body
LyricsPart(f, audio, a, index) ==
    LET src_lrc == FindLyricsForAudio(f, audio, index)
        dst_lrc == WithSuffix(audio, sLrc)
    IN  IF ~a.attach_lyrics \/ ~src_lrc.found THEN Part(f, 0, 0, 0)
        ELSE IF ResolvePath(f, dst_lrc) = ResolvePath(f, src_lrc.path) THEN Part(f, 0, 0, 0)
        ELSE Attached(f, CreateLinkOrCopy(f, dst_lrc, src_lrc.path, a.link_type, a.conflict,
                                          a.platform))

\* the cover part naming the destination after the source extension as it is spelled
CoverPartKeepsCase(f, audio, a) ==
    LET folder == Parent(audio)
        src_cover == FindCoverInDir(f, folder, a.cover_candidates, 1)
        dst_cover == Append(folder, Str("cover") \o Suffix(Name(src_cover.path)))
    IN  IF ~src_cover.found THEN Part(f, 0, 0, 0)
        ELSE IF ResolvePath(f, dst_cover) = ResolvePath(f, src_cover.path) THEN Part(f, 0, 0, 0)
        ELSE Attached(f, CreateLinkOrCopy(f, dst_cover, src_cover.path, a.link_type,
                                          a.conflict, a.platform))

\* the cover part of the loop body for a folder not yet dealt with
CoverPart(f, audio, a) ==
    LET folder == Parent(audio)
        src_cover == FindCoverInDir(f, folder, a.cover_candidates, 1)
        dst_cover == Append(folder, Str("cover") \o Lower(Suffix(Name(src_cover.path))))
    IN  IF ~src_cover.found THEN Part(f, 0, 0, 0)
        ELSE IF ResolvePath(f, dst_cover) = ResolvePath(f, src_cover.path) THEN Part(f, 0, 0, 0)
        ELSE Attached(f, CreateLinkOrCopy(f, dst_cover, src_cover.path, a.link_type,
                                          a.conflict, a.platform))

\* attach_sidecars up to its loop: the counters, the index of lyrics files, and the audio
\* files the walk of root will yield (the loop body creates and removes no audio file)
AttachStart ==
    /\ pc = "start"
    /\ pc' = "attaching"
    /\ stats' = [processed_audio |-> 0, created_lyrics |-> 0, created_covers |-> 0,
                 skipped |-> 0, errors |-> 0]
    /\ cover_done_dirs' = {}
    /\ lyrics_index' = IF args.attach_lyrics THEN IndexLyricsFiles(fs, args.root) ELSE <<>>
    /\ pending' = IterAudioFiles(fs, args.root)
    /\ UNCHANGED <<fs, fs0, srcAudio, dstAudio, rules, metadata, conflict, plan, ops, idx,
                   resolved, guarded, exc, raw, loaded, verdict, hookVars, args>>

\* one iteration of "for audio in _iter_audio_files(...)"; the walk yields the files in
\* the order of the directory listing, which is any order
AttachStep ==
    /\ pc = "attaching"
    /\ \E audio \in pending :
       \E l \in {LyricsPart(fs, audio, args, lyrics_index)} :
       \E cover \in {args.attach_cover /\ Parent(audio) \notin cover_done_dirs} :
       \E c \in {IF cover THEN CoverPart(l.fs, audio, args) ELSE Part(l.fs, 0, 0, 0)} :
          /\ pending' = pending \ {audio}
          /\ fs' = c.fs
          /\ cover_done_dirs' = IF cover THEN cover_done_dirs \cup {Parent(audio)}
                                ELSE cover_done_dirs
          /\ stats' = [processed_audio |-> stats.processed_audio + 1,
                       created_lyrics |-> stats.created_lyrics + l.created,
                       created_covers |-> stats.created_covers + c.created,
                       skipped |-> stats.skipped + l.skipped + c.skipped,
                       errors |-> stats.errors + l.errors + c.errors]
    /\ UNCHANGED <<fs0, srcAudio, dstAudio, rules, metadata, conflict, plan, ops, idx,
                   resolved, guarded, exc, pc, raw, loaded, verdict, hookVars, args,
                   lyrics_index>>

\* "return AttachStats(...)"
AttachReturn ==
    /\ pc = "attaching"
    /\ pending = {}
    /\ pc' = "returned"
    /\ UNCHANGED <<fs, fs0, srcAudio, dstAudio, rules, metadata, conflict, plan, ops, idx,
                   resolved, guarded, exc, raw, loaded, verdict, hookVars, linkVars>>

\* the tree attach_sidecars is run on: one audio file in /r/a
AttachBase ==
    FsOf(<< <<Root, Dir>>, <<P("/r"), Dir>>, <<P("/r/a"), Dir>>, <<P("/r/b"), Dir>>,
            <<P("/r/c"), Dir>>, <<P("/r/a/t.flac"), File("audio")>> >>)

\* what the tree may hold besides: lyrics next to the audio file, elsewhere, a second
\* match differing in case, a broken symlink where the lyrics would go, more audio files,
\* a cover candidate, a broken symlink where the cover would go
AttachFeatures ==
    << FsOf(<< <<P("/r/a/t.lrc"), File("own")>> >>),
       FsOf(<< <<P("/r/c/t.lrc"), File("one")>> >>),
       FsOf(<< <<P("/r/b/T.lrc"), File("two")>> >>),
       FsOf(<< <<P("/r/a/t.lrc"), Link(P("/r/gone.lrc"))>> >>),
       FsOf(<< <<P("/r/b/t.mp3"), File("audio")>> >>),
       FsOf(<< <<P("/r/a/t.mp3"), File("audio")>> >>),
       FsOf(<< <<P("/r/a/folder.jpg"), File("art")>> >>),
       FsOf(<< <<P("/r/a/cover.jpg"), Link(P("/r/gone.jpg"))>> >>) >>

\* at most this many of them at once
MaxAttachFeatures == 3

RECURSIVE AttachOverlay(_, _)
AttachOverlay(f, S) ==
    IF S = {} THEN f
    ELSE LET i == CHOOSE x \in S : TRUE
         IN  AttachOverlay(AttachFeatures[i] @@ f, S \ {i})

AttachFeatureSets ==
    {S \in SUBSET (1..Len(AttachFeatures)) :
        /\ Cardinality(S) <= MaxAttachFeatures
        /\ \A i, j \in S : Agree(AttachFeatures[i], AttachFeatures[j])}

\* the keyword arguments, and whether the platform lets the process make symlinks and
\* hard links
AttachArgs ==
    {[root |-> P("/r"), link_type |-> lt, conflict |-> cpol,
      cover_candidates |-> CoverCandidates,
      attach_lyrics |-> parts[1], attach_cover |-> parts[2],
      platform |-> [symlinks |-> caps[1], hardlinks |-> caps[2]]] :
        lt \in {"auto", "symlink", "hardlink", "copy"}, cpol \in Policies,
        parts \in {<<TRUE, TRUE>>, <<TRUE, FALSE>>, <<FALSE, TRUE>>},
        caps \in {<<TRUE, TRUE>>, <<FALSE, TRUE>>, <<FALSE, FALSE>>}}

InitAttach ==
    /\ \E S \in AttachFeatureSets : fs = AttachOverlay(AttachBase, S)
    /\ fs0 = fs
    /\ args \in AttachArgs
    /\ pending = {}
    /\ lyrics_index = <<>>
    /\ cover_done_dirs = {}
    /\ stats = <<>>
    /\ srcAudio = <<>>
    /\ dstAudio = <<>>
    /\ rules = <<>>
    /\ metadata = NoMetadata
    /\ conflict = args.conflict
    /\ plan = Idle
    /\ ops = <<>>
    /\ idx = 0
    /\ resolved = <<>>
    /\ guarded = <<>>
    /\ exc = "none"
    /\ pc = "start"
    /\ raw = <<>>
    /\ loaded = NotLoaded
    /\ verdict = Ok
    /\ HookUnused

NextAttach == AttachStart \/ AttachStep \/ AttachReturn

SpecAttach == InitAttach /\ [][NextAttach]_vars

---------------------------------------------------------------------------
(* Properties of the bulk linker *)

\* the step is the loop iteration for this audio file
StepOf(audio) == pc = "attaching" /\ audio \in pending /\ pending' = pending \ {audio}

\* the .lrc files under root, when attach_sidecars was called, whose lowercase stem is
\* that of the audio file
StemMatches(audio) ==
    {p \in DOMAIN fs0 :
        /\ IsPrefix(args.root, p) /\ p # args.root
        /\ EndsWith(Name(p), sLrc)
        /\ IsFile(fs0, p)
        /\ Lower(Stem(Name(p))) = Lower(Stem(Name(audio)))}

\* p leads to a file with this content
HasContent(f, p, d) == IsFile(f, p) /\ f[Stat(f, p).at].data = d

\* the step created no .lrc entry
NoNewLyrics == \A p \in DOMAIN fs' \ DOMAIN fs : ~EndsWith(Name(p), sLrc)

\* the platform can make the kind of link asked for (auto and copy always can)
CanLink ==
    /\ args.link_type = "symlink" => args.platform.symlinks
    /\ args.link_type = "hardlink" => args.platform.hardlinks

\* the step created the lyrics of the one match at path p and counted it
CreatedAt(p, audio) ==
    /\ HasContent(fs', p, fs[Stat(fs, CHOOSE m \in StemMatches(audio) : TRUE).at].data)
    /\ stats'.created_lyrics = stats.created_lyrics + 1

\* the step left the lyrics alone: nothing created, nothing counted as created, and no
\* error counted by the lyrics part
LeftAlone ==
    /\ NoNewLyrics
    /\ stats'.created_lyrics = stats.created_lyrics
    /\ ~args.attach_cover => stats'.errors = stats.errors

C20_AmbiguousCountedAsSkip ==
    [][\A audio \in pending :
          (/\ StepOf(audio)
           /\ args.attach_lyrics /\ ~args.attach_cover
           /\ ~Exists(fs, WithSuffix(audio, sLrc))
           /\ Cardinality(StemMatches(audio)) # 1)
          => stats'.errors = stats.errors /\ stats'.skipped = stats.skipped + 1]_vars

---------------------------------------------------------------------------
(* sidecar_links.py: cleanup_broken_sidecar_links *)

\* "is_lyrics or is_cover" for path.name.lower()
Eligible(name, a) ==
    \/ a.remove_lyrics /\ EndsWith(Lower(name), sLrc)
    \/ a.remove_cover /\ Lower(name) \in {Str("cover.jpg"), Str("cover.png")}

\* path.unlink(missing_ok=True); PermissionError in a directory the process may not
\* write to
CleanupUnlink(f, p, a) ==
    IF Parent(p) \in a.locked THEN Raise(f, "OSError")
    ELSE IF ~LExists(f, p) THEN Done(f)
    ELSE Unlink(f, p)

\* the body of the loop without the test for a broken symlink
CleanupBodyAnyLink(f, p, a) ==
    IF ~IsFile(f, p) /\ ~IsLink(f, p) THEN [fs |-> f, removed |-> 0, skipped |-> 0, errors |-> 0]
    ELSE IF ~IsLink(f, p) THEN [fs |-> f, removed |-> 0, skipped |-> 0, errors |-> 0]
    ELSE IF ~Eligible(Name(p), a) THEN [fs |-> f, removed |-> 0, skipped |-> 1, errors |-> 0]
    ELSE IF CleanupUnlink(f, p, a).exc # "none"
         THEN [fs |-> CleanupUnlink(f, p, a).fs, removed |-> 0, skipped |-> 0, errors |-> 1]
    ELSE [fs |-> CleanupUnlink(f, p, a).fs, removed |-> 1, skipped |-> 0, errors |-> 0]

\* the body of the loop for one path: the filesystem and the counters it added to
CleanupBody(f, p, a) ==
    IF ~IsFile(f, p) /\ ~IsLink(f, p) THEN [fs |-> f, removed |-> 0, skipped |-> 0, errors |-> 0]
    ELSE IF ~IsBrokenSymlink(f, p) THEN [fs |-> f, removed |-> 0, skipped |-> 0, errors |-> 0]
    ELSE IF ~Eligible(Name(p), a) THEN [fs |-> f, removed |-> 0, skipped |-> 1, errors |-> 0]
    ELSE IF CleanupUnlink(f, p, a).exc # "none"
         THEN [fs |-> CleanupUnlink(f, p, a).fs, removed |-> 0, skipped |-> 0, errors |-> 1]
    ELSE [fs |-> CleanupUnlink(f, p, a).fs, removed |-> 1, skipped |-> 0, errors |-> 0]

\* cleanup_broken_sidecar_links up to its loop: the counters, and the entries the walk
\* of root will yield (the loop body removes symlinks only, which hold no entries)
CleanupStart ==
    /\ pc = "cleanup"
    /\ pc' = "cleaning"
    /\ stats' = [removed_broken_links |-> 0, skipped |-> 0, errors |-> 0]
    /\ pending' = Walk(fs, args.root)
    /\ UNCHANGED <<fs, fs0, srcAudio, dstAudio, rules, metadata, conflict, plan, ops, idx,
                   resolved, guarded, exc, raw, loaded, verdict, hookVars, args,
                   lyrics_index, cover_done_dirs>>

\* a cleanup loop that lets the exception of a failed removal out
CleanupStepAborts ==
    /\ pc = "cleaning"
    /\ \E path \in pending :
       \E r \in {CleanupBody(fs, path, args)} :
          /\ pending' = pending \ {path}
          /\ fs' = r.fs
          /\ stats' = [removed_broken_links |-> stats.removed_broken_links + r.removed,
                       skipped |-> stats.skipped + r.skipped,
                       errors |-> stats.errors]
          /\ pc' = IF r.errors > 0 THEN "raised" ELSE pc
          /\ exc' = IF r.errors > 0 THEN "OSError" ELSE exc
    /\ UNCHANGED <<fs0, srcAudio, dstAudio, rules, metadata, conflict, plan, ops, idx,
                   resolved, guarded, raw, loaded, verdict, hookVars, args,
                   lyrics_index, cover_done_dirs>>

\* one iteration of "for path in root.rglob("*")", the paths in any order
CleanupStep ==
    /\ pc = "cleaning"
    /\ \E path \in pending :
       \E r \in {CleanupBody(fs, path, args)} :
          /\ pending' = pending \ {path}
          /\ fs' = r.fs
          /\ stats' = [removed_broken_links |-> stats.removed_broken_links + r.removed,
                       skipped |-> stats.skipped + r.skipped,
                       errors |-> stats.errors + r.errors]
    /\ UNCHANGED <<fs0, srcAudio, dstAudio, rules, metadata, conflict, plan, ops, idx,
                   resolved, guarded, exc, pc, raw, loaded, verdict, hookVars, args,
                   lyrics_index, cover_done_dirs>>

\* "return CleanupStats(...)"
CleanupReturn ==
    /\ pc = "cleaning"
    /\ pending = {}
    /\ pc' = "cleaned"
    /\ UNCHANGED <<fs, fs0, srcAudio, dstAudio, rules, metadata, conflict, plan, ops, idx,
                   resolved, guarded, exc, raw, loaded, verdict, hookVars, linkVars>>

\* the tree cleanup is run on
CleanupBase ==
    FsOf(<< <<Root, Dir>>, <<P("/r"), Dir>>, <<P("/r/a"), Dir>>,
            <<P("/r/a/t.flac"), File("audio")>> >>)

\* what the tree may hold besides: broken symlinks named like lyrics (one with a capital
\* in its suffix), like a cover, like neither; a symlink whose target exists and that
\* target; a regular cover; a broken link in another directory; a directory named like
\* lyrics; a symlink to a directory
CleanupFeatures ==
    << FsOf(<< <<P("/r/a/t.lrc"), Link(P("/r/gone.lrc"))>> >>),
       FsOf(<< <<P("/r/a/t.Lrc"), Link(P("/r/gone.lrc"))>> >>),
       FsOf(<< <<P("/r/a/cover.jpg"), Link(P("/r/gone.jpg"))>> >>),
       FsOf(<< <<P("/r/a/notes.txt"), Link(P("/r/gone.txt"))>> >>),
       FsOf(<< <<P("/r/a/live.lrc"), Link(P("/r/a/real.lrc"))>>,
               <<P("/r/a/real.lrc"), File("words")>> >>),
       FsOf(<< <<P("/r/a/cover.png"), File("art")>> >>),
       FsOf(<< <<P("/r/b"), Dir>>, <<P("/r/b/x.lrc"), Link(P("/r/gone.lrc"))>> >>),
       FsOf(<< <<P("/r/d.lrc"), Dir>> >>),
       FsOf(<< <<P("/r/ld"), Link(P("/r/a"))>> >>) >>

\* at most this many of them at once
MaxCleanupFeatures == 3

RECURSIVE CleanupOverlay(_, _)
CleanupOverlay(f, S) ==
    IF S = {} THEN f
    ELSE LET i == CHOOSE x \in S : TRUE
         IN  CleanupOverlay(CleanupFeatures[i] @@ f, S \ {i})

\* the keyword arguments, and the directories the process may not remove entries from
CleanupArgs ==
    {[root |-> P("/r"), remove_lyrics |-> rl, remove_cover |-> rc, locked |-> lk] :
        rl \in BOOLEAN, rc \in BOOLEAN, lk \in {{}, {P("/r/a")}}}

InitCleanup ==
    /\ \E S \in {T \in SUBSET (1..Len(CleanupFeatures)) : Cardinality(T) <= MaxCleanupFeatures} :
          fs = CleanupOverlay(CleanupBase, S)
    /\ fs0 = fs
    /\ args \in CleanupArgs
    /\ pending = {}
    /\ lyrics_index = <<>>
    /\ cover_done_dirs = {}
    /\ stats = <<>>
    /\ srcAudio = <<>>
    /\ dstAudio = <<>>
    /\ rules = <<>>
    /\ metadata = NoMetadata
    /\ conflict = "skip"
    /\ plan = Idle
    /\ ops = <<>>
    /\ idx = 0
    /\ resolved = <<>>
    /\ guarded = <<>>
    /\ exc = "none"
    /\ pc = "cleanup"
    /\ raw = <<>>
    /\ loaded = NotLoaded
    /\ verdict = Ok
    /\ HookUnused

NextCleanup == CleanupStart \/ CleanupStep \/ CleanupReturn

SpecCleanup == InitCleanup /\ [][NextCleanup]_vars

---------------------------------------------------------------------------
(* Properties of cleanup_broken_sidecar_links *)

\* the broken symlinks under root when cleanup was called
BrokenAtStart ==
    {p \in DOMAIN fs0 : IsPrefix(args.root, p) /\ p # args.root /\ IsBrokenSymlink(fs0, p)}

\* those whose lowercased name ends in .lrc (with remove_lyrics) or is cover.jpg or
\* cover.png (with remove_cover)
EligibleAtStart ==
    {p \in BrokenAtStart :
        \/ args.remove_lyrics /\ EndsWith(Lower(Name(p)), sLrc)
        \/ args.remove_cover /\ Lower(Name(p)) = Str("cover.jpg")
        \/ args.remove_cover /\ Lower(Name(p)) = Str("cover.png")}

\* C23: cleanup removes only broken symlinks with an eligible name, never a regular
\* file, a directory or a symlink whose target exists; removed_broken_links is the
\* number of links removed; when it returns, every ineligible broken symlink is still
\* there and skipped is their number.
C23_OnlyEligibleBrokenLinksRemoved ==
    pc \in {"cleaning", "cleaned"} =>
        /\ DOMAIN fs \subseteq DOMAIN fs0
        /\ \A p \in DOMAIN fs : fs[p] = fs0[p]
        /\ (DOMAIN fs0 \ DOMAIN fs) \subseteq EligibleAtStart
        /\ stats.removed_broken_links = Cardinality(DOMAIN fs0 \ DOMAIN fs)
        /\ pc = "cleaned" =>
              /\ (BrokenAtStart \ EligibleAtStart) \subseteq DOMAIN fs
              /\ stats.skipped = Cardinality(BrokenAtStart \ EligibleAtStart)
              /\ stats.errors = Cardinality(EligibleAtStart \cap DOMAIN fs)

\* cleanup returned: it removed a broken link, left an ineligible broken link and
\* counted it, and a symlink whose target exists is untouched
C23_Witness ==
    /\ pc = "cleaned"
    /\ stats.removed_broken_links >= 1
    /\ stats.skipped = 1
    /\ P("/r/a/notes.txt") \in DOMAIN fs
    /\ DOMAIN fs # DOMAIN fs0
    /\ \E p \in DOMAIN fs : fs[p].kind = "link" /\ Exists(fs, p)

\* the eligible names when the .lrc suffix is compared as written, without lowercasing
EligibleAsWritten ==
    {p \in BrokenAtStart :
        \/ args.remove_lyrics /\ EndsWith(Name(p), sLrc)
        \/ args.remove_cover /\ Lower(Name(p)) = Str("cover.jpg")
        \/ args.remove_cover /\ Lower(Name(p)) = Str("cover.png")}

\* C23 as stated, with only the cover names compared case-insensitively: nothing but
\* broken symlinks with an eligible name is removed, and every other broken symlink is
\* still there and counted in skipped when cleanup returns.
C23_SuffixAsWritten ==
    pc \in {"cleaning", "cleaned"} =>
        /\ (DOMAIN fs0 \ DOMAIN fs) \subseteq EligibleAsWritten
        /\ stats.removed_broken_links = Cardinality(DOMAIN fs0 \ DOMAIN fs)
        /\ pc = "cleaned" =>
              /\ (BrokenAtStart \ EligibleAsWritten) \subseteq DOMAIN fs
              /\ stats.skipped = Cardinality(BrokenAtStart \ EligibleAsWritten)

---------------------------------------------------------------------------
(* The two bulk operations together: a call of attach_sidecars or of
   cleanup_broken_sidecar_links. *)

InitBulk == InitAttach \/ InitCleanup

NextBulk == NextAttach \/ NextCleanup

SpecBulk == InitBulk /\ [][NextBulk]_vars

\* how many of the two parts of the loop body raise for this audio file
RaisedIn(audio) ==
    LET l == LyricsPart(fs, audio, args, lyrics_index)
        cover == args.attach_cover /\ Parent(audio) \notin cover_done_dirs
    IN  l.errors + (IF cover THEN CoverPart(l.fs, audio, args).errors ELSE 0)

\* removing this path fails
RemovalFails(path) ==
    /\ IsBrokenSymlink(fs, path)
    /\ Eligible(Name(path), args)
    /\ CleanupUnlink(fs, path, args).exc # "none"

\* C21: a bad item never aborts a bulk run.  In attach_sidecars each part that raises
\* adds one to errors and the loop goes on, every audio file under root is processed, so
\* processed_audio is their number, and the call returns; in
\* cleanup_broken_sidecar_links a failed removal adds one to errors, the walk goes on
\* over the remaining paths, and the call returns.  Returning is stated as: no exception
\* leaves the call, and every step of a loop takes one item off the finite walk or, with
\* none left, returns.
C21_BadItemNeverAborts ==
    /\ [](pc # "raised" /\ exc = "none")
    /\ [](pc \in {"attaching", "returned"} =>
            stats.processed_audio + Cardinality(pending)
                = Cardinality(IterAudioFiles(fs0, args.root)))
    /\ [](pc \in {"returned", "cleaned"} => pending = {})
    /\ [][\A audio \in pending :
            StepOf(audio) =>
                /\ stats'.errors = stats.errors + RaisedIn(audio)
                /\ pc' = "attaching"]_vars
    /\ [][\A path \in pending :
            pc = "cleaning" /\ pending' # pending /\ path \notin pending' /\ RemovalFails(path) =>
                /\ stats'.errors = stats.errors + 1
                /\ pending' = pending \ {path}
                /\ pc' = "cleaning"]_vars
    /\ [](pc = "cleaned" =>
            \A p \in EligibleAtStart : Parent(p) \notin args.locked => p \notin DOMAIN fs)
    /\ [][(pc = "attaching" \/ pc = "cleaning") =>
            (Cardinality(pending') < Cardinality(pending)
             \/ (pending = {} /\ pc' \in {"returned", "cleaned"}))]_vars

\* attach_sidecars returned after two parts raised: the loop went on after the first
C21_Witness ==
    /\ pc = "returned"
    /\ stats.errors >= 2
    /\ stats.processed_audio >= 2
    /\ stats.processed_audio = Cardinality(IterAudioFiles(fs0, args.root))

---------------------------------------------------------------------------
(* attach_sidecars run for covers only, with the candidate list the caller gives *)

\* the tree: two audio files in /r/a, one in /r/b
CoverBase ==
    FsOf(<< <<Root, Dir>>, <<P("/r"), Dir>>, <<P("/r/a"), Dir>>, <<P("/r/b"), Dir>>,
            <<P("/r/a/t.flac"), File("audio")>>, <<P("/r/a/u.mp3"), File("audio")>>,
            <<P("/r/b/t.flac"), File("audio")>> >>)

\* what the tree may hold besides: candidate files, a cover already in place as a file,
\* as a symlink to a candidate, as a broken symlink, as a directory, a candidate that is
\* a directory, a candidate with an upper-case extension
CoverFeatures ==
    << FsOf(<< <<P("/r/a/folder.jpg"), File("folder")>> >>),
       FsOf(<< <<P("/r/a/front.png"), File("front")>> >>),
       FsOf(<< <<P("/r/a/cover.jpg"), File("cover")>> >>),
       FsOf(<< <<P("/r/a/cover.jpg"), Link(P("/r/a/folder.jpg"))>> >>),
       FsOf(<< <<P("/r/a/cover.jpg"), Link(P("/r/gone.jpg"))>> >>),
       FsOf(<< <<P("/r/a/cover.jpg"), Dir>> >>),
       FsOf(<< <<P("/r/a/folder.jpg"), Dir>> >>),
       FsOf(<< <<P("/r/a/Front.TFF"), File("tff")>> >>),
       FsOf(<< <<P("/r/b/folder.jpg"), File("other")>> >>) >>

\* at most this many of them at once
MaxCoverFeatures == 3

RECURSIVE CoverOverlay(_, _)
CoverOverlay(f, S) ==
    IF S = {} THEN f
    ELSE LET i == CHOOSE x \in S : TRUE
         IN  CoverOverlay(CoverFeatures[i] @@ f, S \ {i})

CoverFeatureSets ==
    {S \in SUBSET (1..Len(CoverFeatures)) :
        /\ Cardinality(S) <= MaxCoverFeatures
        /\ \A i, j \in S : Agree(CoverFeatures[i], CoverFeatures[j])}

\* the candidate lists a caller gives: the default one, one that ranks folder.jpg above
\* cover.jpg, one with an upper-case extension first
CandidateLists ==
    {CoverCandidates,
     <<Str("folder.jpg"), Str("cover.jpg")>>,
     <<Str("Front.TFF"), Str("front.png"), Str("folder.jpg")>>}

CoverArgs ==
    {[root |-> P("/r"), link_type |-> lt, conflict |-> cpol,
      cover_candidates |-> cands,
      attach_lyrics |-> FALSE, attach_cover |-> TRUE,
      platform |-> [symlinks |-> caps[1], hardlinks |-> caps[2]]] :
        lt \in {"auto", "symlink", "hardlink", "copy"}, cpol \in Policies,
        cands \in CandidateLists,
        caps \in {<<TRUE, TRUE>>, <<FALSE, TRUE>>, <<FALSE, FALSE>>}}

InitCover ==
    /\ \E S \in CoverFeatureSets : fs = CoverOverlay(CoverBase, S)
    /\ fs0 = fs
    /\ args \in CoverArgs
    /\ pending = {}
    /\ lyrics_index = <<>>
    /\ cover_done_dirs = {}
    /\ stats = <<>>
    /\ srcAudio = <<>>
    /\ dstAudio = <<>>
    /\ rules = <<>>
    /\ metadata = NoMetadata
    /\ conflict = args.conflict
    /\ plan = Idle
    /\ ops = <<>>
    /\ idx = 0
    /\ resolved = <<>>
    /\ guarded = <<>>
    /\ exc = "none"
    /\ pc = "start"
    /\ raw = <<>>
    /\ loaded = NotLoaded
    /\ verdict = Ok
    /\ HookUnused

SpecCover == InitCover /\ [][NextAttach]_vars

\* the position in the caller's list of the first name that is a regular file in the
\* folder, 0 when there is none
FirstCandidate(folder) ==
    LET I == {i \in 1..Len(args.cover_candidates) :
                 IsFile(fs, Append(folder, args.cover_candidates[i]))}
    IN  IF I = {} THEN 0 ELSE CHOOSE i \in I : \A j \in I : i <= j

\* an audio file of this folder went through the loop before
SeenBefore(folder) ==
    \E a \in IterAudioFiles(fs0, args.root) \ pending : Parent(a) = folder

\* the step did nothing about a cover
CoverLeftAlone == fs' = fs /\ stats'.created_covers = stats.created_covers

\* the step made path p a file with the content of src and counted a cover
CoverAt(p, src) ==
    /\ HasContent(fs', p, fs[Stat(fs, src).at].data)
    /\ stats'.created_covers = stats.created_covers + 1

---------------------------------------------------------------------------
(* sidecar_links.py: _create_link_or_copy, statement by statement *)

\* the variables a call of _create_link_or_copy leaves alone
LinkRest ==
    <<fs0, srcAudio, dstAudio, rules, metadata, conflict, plan, ops, idx, guarded, raw,
      loaded, verdict, old_paths, filename, log, escaped, plugin_config, global_config,
      table, args, pending, lyrics_index, cover_done_dirs, stats>>

\* "target = target.resolve()"
LinkTarget == ResolvePath(fs0, args.target)

\* "dst2 = _resolve_conflict(dst, conflict, logger)" and "if dst2 is None: return False"
LinkCall ==
    /\ pc = "call"
    /\ \E r \in {LinkResolveConflict(fs, args.dst, args.conflict)} :
          /\ fs' = r.fs
          /\ exc' = r.exc
          /\ resolved' = r.ret
          /\ pc' = IF r.exc # "none" THEN "raised"
                   ELSE IF r.skip THEN "skipped"
                   ELSE "resolved"
          /\ events' = Append(events, [step |-> "resolve", dst |-> args.dst, ok |-> r.exc = "none"])
    /\ UNCHANGED LinkRest

\* another process creates the path in between (the calls are not atomic)
OtherWriter ==
    /\ pc = "resolved"
    /\ \E d \in {LStat(fs, resolved)} :
          /\ ~d.found /\ d.slot
          /\ fs' = Put(fs, d.at, File("other"))
    /\ events' = Append(events, [step |-> "other", dst |-> resolved, ok |-> TRUE])
    /\ UNCHANGED <<LinkRest, resolved, exc, pc>>

\* "_ensure_parent(dst2)" and "if dst2.exists() or _is_broken_symlink(dst2): raise"
LinkCheck ==
    /\ pc = "resolved"
    /\ \E par \in {EnsureParent(fs, resolved)} :
          /\ fs' = par.fs
          /\ IF par.exc # "none" THEN pc' = "raised" /\ exc' = par.exc
             ELSE IF LinkTaken(par.fs, resolved) THEN pc' = "raised" /\ exc' = "RuntimeError"
             ELSE /\ pc' = IF args.link_type = "auto" THEN "symlink" ELSE args.link_type
                  /\ exc' = exc
    /\ UNCHANGED <<LinkRest, resolved, events>>

\* what one attempt does
Attempt(kind) ==
    IF kind = "symlink" THEN TrySymlink(fs, resolved, LinkTarget, args.platform)
    ELSE IF kind = "hardlink" THEN TryHardlink(fs, resolved, LinkTarget, args.platform)
    ELSE Copy2(fs, LinkTarget, resolved)

\* an attempt after which every link type goes on to the next one
LinkAttemptAlwaysFallsBack ==
    /\ pc \in {"symlink", "hardlink", "copy"}
    /\ \E r \in {Attempt(pc)} :
          /\ fs' = r.fs
          /\ events' = Append(events, [step |-> pc, dst |-> resolved, ok |-> r.exc = "none"])
          /\ IF r.exc = "none" THEN pc' = "created" /\ exc' = exc
             ELSE IF pc = "symlink" THEN pc' = "hardlink" /\ exc' = exc
             ELSE IF pc = "hardlink" THEN pc' = "copy" /\ exc' = exc
             ELSE pc' = "raised" /\ exc' = r.exc
    /\ UNCHANGED <<LinkRest, resolved>>

\* one of _try_symlink, _try_hardlink, _copy_file: "return True" when it succeeds; in
\* auto an OSError of the first two is caught and the next one is tried; otherwise the
\* exception leaves the function
LinkAttempt ==
    /\ pc \in {"symlink", "hardlink", "copy"}
    /\ \E r \in {Attempt(pc)} :
          /\ fs' = r.fs
          /\ events' = Append(events, [step |-> pc, dst |-> resolved, ok |-> r.exc = "none"])
          /\ IF r.exc = "none" THEN pc' = "created" /\ exc' = exc
             ELSE IF args.link_type = "auto" /\ pc = "symlink" THEN pc' = "hardlink" /\ exc' = exc
             ELSE IF args.link_type = "auto" /\ pc = "hardlink" THEN pc' = "copy" /\ exc' = exc
             ELSE pc' = "raised" /\ exc' = r.exc
    /\ UNCHANGED <<LinkRest, resolved>>

\* the tree: the destination is /r/a/t.lrc, the target /r/c/t.lrc or a missing file
LinkBase ==
    FsOf(<< <<Root, Dir>>, <<P("/r"), Dir>>, <<P("/r/a"), Dir>>, <<P("/r/c"), Dir>>,
            <<P("/r/c/t.lrc"), File("lyrics")>> >>)

\* what may be at the destination and at its rename candidates
LinkFeatures ==
    << FsOf(<< <<P("/r/a/t.lrc"), File("old")>> >>),
       FsOf(<< <<P("/r/a/t.lrc"), Link(P("/r/gone.lrc"))>> >>),
       FsOf(<< <<P("/r/a/t.lrc"), Dir>> >>),
       FsOf(<< <<P("/r/a/t.lrc"), Link(P("/r/c"))>> >>),
       FsOf(<< <<P("/r/a/t (1).lrc"), File("one")>> >>),
       FsOf(<< <<P("/r/a/t (1).lrc"), Link(P("/r/gone.lrc"))>> >>),
       FsOf(<< <<P("/r/a/t (2).lrc"), Link(P("/r/gone.lrc"))>> >>) >>

\* at most this many of them at once
MaxLinkFeatures == 3

RECURSIVE LinkOverlay(_, _)
LinkOverlay(f, S) ==
    IF S = {} THEN f
    ELSE LET i == CHOOSE x \in S : TRUE
         IN  LinkOverlay(LinkFeatures[i] @@ f, S \ {i})

LinkFeatureSets ==
    {S \in SUBSET (1..Len(LinkFeatures)) :
        /\ Cardinality(S) <= MaxLinkFeatures
        /\ \A i, j \in S : Agree(LinkFeatures[i], LinkFeatures[j])}

\* the arguments, and what the platform allows
LinkArgs ==
    {[dst |-> P("/r/a/t.lrc"), target |-> t, link_type |-> lt, conflict |-> cpol,
      platform |-> [symlinks |-> caps[1], hardlinks |-> caps[2]]] :
        t \in {P("/r/c/t.lrc"), P("/r/c/none.lrc")},
        lt \in {"auto", "symlink", "hardlink", "copy"}, cpol \in Policies,
        caps \in {<<TRUE, TRUE>>, <<FALSE, TRUE>>, <<FALSE, FALSE>>}}

InitLink ==
    /\ \E S \in LinkFeatureSets : fs = LinkOverlay(LinkBase, S)
    /\ fs0 = fs
    /\ args \in LinkArgs
    /\ pending = {}
    /\ lyrics_index = <<>>
    /\ cover_done_dirs = {}
    /\ stats = <<>>
    /\ srcAudio = <<>>
    /\ dstAudio = <<>>
    /\ rules = <<>>
    /\ metadata = NoMetadata
    /\ conflict = args.conflict
    /\ plan = Idle
    /\ ops = <<>>
    /\ idx = 0
    /\ resolved = <<>>
    /\ guarded = <<>>
    /\ exc = "none"
    /\ pc = "call"
    /\ raw = <<>>
    /\ loaded = NotLoaded
    /\ verdict = Ok
    /\ HookUnused

NextLink == LinkCall \/ OtherWriter \/ LinkCheck \/ LinkAttempt

SpecLink == InitLink /\ [][NextLink]_vars

\* no other process wrote in between
Alone == \A i \in 1..Len(events) : events[i].step # "other"

\* the statements together do what CreateLinkOrCopy says the call does
StepsAgree ==
    pc \in {"created", "skipped", "raised"} /\ Alone =>
        LET r == CreateLinkOrCopy(fs0, args.dst, args.target, args.link_type,
                                  args.conflict, args.platform)
        IN  /\ r.exc = exc
            /\ r.made = (pc = "created")
            /\ r.fs = fs

\* the attempts of the call so far, in order
Attempts == SelectSeq(events, LAMBDA e : e.step \in {"symlink", "hardlink", "copy"})

\* the order of the attempts in auto
AutoOrder == <<"symlink", "hardlink", "copy">>

\* C24: the conflict is resolved once, before any attempt, and every attempt is made at
\* the destination it gave.  In auto the attempts are symlink, hardlink, copy in that
\* order, each one made only after the one before raised OSError, and the first that
\* succeeds ends the call as created; when copy fails too its error leaves the call.
\* With an explicit link type there is one attempt, of that type, and its failure leaves
\* the call.
C24_AutoFallsBackInOrder ==
    LET n == Len(Attempts)
    IN  /\ Len(SelectSeq(events, LAMBDA e : e.step = "resolve")) = (IF pc = "call" THEN 0 ELSE 1)
        /\ pc # "call" => events[1].step = "resolve"
        /\ \A i \in 1..n : Attempts[i].dst = resolved
        /\ \A i \in 1..(n - 1) : ~Attempts[i].ok
        /\ pc = "created" <=> (n >= 1 /\ Attempts[n].ok)
        /\ args.link_type = "auto" =>
              /\ n <= 3
              /\ \A i \in 1..n : Attempts[i].step = AutoOrder[i]
              /\ (n \in 1..2 /\ ~Attempts[n].ok) => pc = AutoOrder[n + 1]
              /\ (n = 3 /\ ~Attempts[n].ok) => pc = "raised" /\ exc = "OSError"
        /\ args.link_type # "auto" =>
              /\ n <= 1
              /\ \A i \in 1..n : Attempts[i].step = args.link_type
              /\ (n = 1 /\ ~Attempts[n].ok) => pc = "raised" /\ exc = "OSError"

\* auto on a platform without symlinks and hard links: the third attempt, the copy, made
\* the file at a renamed destination
C24_Witness ==
    /\ pc = "created"
    /\ args.link_type = "auto"
    /\ Len(Attempts) = 3
    /\ args.conflict = "rename"
    /\ resolved = P("/r/a/t (1).lrc")
    /\ HasContent(fs, resolved, "lyrics")
    /\ fs0[P("/r/a/t.lrc")] = fs[P("/r/a/t.lrc")]

\* something is at the path: it exists, or it is a symlink whose target does not
Occupied(f, p) == Exists(f, p) \/ (IsLink(f, p) /\ ~Exists(f, p))

\* the rename candidates of the destination up to the one chosen are all occupied
ChosenCandidate ==
    \E n \in 1..(MaxLinkFeatures + 1) :
        /\ resolved = LinkRenameCandidate(args.dst, n)
        /\ ~Occupied(fs0, resolved)
        /\ \A k \in 1..(n - 1) : Occupied(fs0, LinkRenameCandidate(args.dst, k))

\* what holds of the call at every point
FreePathsOnly ==
    /\ (pc # "call" /\ ~Occupied(fs0, args.dst)) => resolved = args.dst
    /\ (pc # "call" /\ Occupied(fs0, args.dst) /\ args.conflict = "skip") =>
          pc = "skipped" /\ fs = fs0 /\ Attempts = <<>>
    /\ (pc \notin {"call", "raised"} /\ Occupied(fs0, args.dst) /\ args.conflict = "rename") =>
          ChosenCandidate
    /\ pc = "skipped" => Occupied(fs0, args.dst) /\ args.conflict = "skip"
    /\ pc \in {"symlink", "hardlink", "copy"} => ~Occupied(fs, resolved)
    /\ pc = "created" =>
          Occupied(fs, resolved) /\ (~Occupied(fs0, resolved) \/ args.conflict = "overwrite")
    /\ (~Alone /\ pc # "resolved") =>
          /\ pc = "raised" /\ exc = "RuntimeError"
          /\ Attempts = <<>>
          /\ HasContent(fs, resolved, "other")

\* C25: a destination that exists or is a broken symlink is taken.  Under skip a taken
\* destination ends the call with nothing made and nothing changed; under rename the
\* destination chosen is the first candidate that neither exists nor is a broken
\* symlink; whenever an attempt is about to be made, nothing is at the path it writes
\* to, and the attempt changes nothing but that path; and when something appeared there
\* in between, the call raises RuntimeError, has made no attempt and leaves that entry
\* as it is.
C25_OnlyFreePathsWritten ==
    /\ []FreePathsOnly
    /\ [][(pc = "symlink" \/ pc = "hardlink" \/ pc = "copy") =>
            /\ DOMAIN fs \subseteq DOMAIN fs'
            /\ \A p \in DOMAIN fs : fs'[p] = fs[p]
            /\ DOMAIN fs' \ DOMAIN fs \subseteq {resolved}]_vars

\* rename with the destination and its first two candidates taken, two of them by broken
\* symlinks: the link was made at the third candidate
C25_Witness ==
    /\ pc = "created"
    /\ args.conflict = "rename"
    /\ resolved = P("/r/a/t (3).lrc")
    /\ IsBrokenSymlink(fs, P("/r/a/t (1).lrc"))
    /\ IsBrokenSymlink(fs, P("/r/a/t (2).lrc"))
    /\ Occupied(fs, resolved)

---------------------------------------------------------------------------
(* Runs with tree rules *)

\* what the directories may hold: the tree, a regular file where the tree would be, a
\* tree already at the destination, a sidecar file, the tree as a symlink to a directory
\* next to it
TreeFeatures ==
    << FsOf(<< <<P("/s/old.extras"), Dir>>, <<P("/s/old.extras/n.txt"), File("notes")>> >>),
       FsOf(<< <<P("/s/old.extras"), File("stray")>> >>),
       FsOf(<< <<P("/d/new.extras"), Dir>>, <<P("/d/new.extras/z.txt"), File("z")>> >>),
       FsOf(<< <<P("/s/old.lrc"), File("lyrics")>> >>),
       FsOf(<< <<P("/s/old.extras"), Link(P("/s/real"))>>, <<P("/s/real"), Dir>>,
               <<P("/s/real/n.txt"), File("notes")>> >>) >>

\* at most this many of them at once
MaxTreeFeatures == 3

RECURSIVE TreeOverlay(_, _)
TreeOverlay(f, S) ==
    IF S = {} THEN f
    ELSE LET i == CHOOSE x \in S : TRUE
         IN  TreeOverlay(TreeFeatures[i] @@ f, S \ {i})

TreeFeatureSets ==
    {S \in SUBSET (1..Len(TreeFeatures)) :
        /\ Cardinality(S) <= MaxTreeFeatures
        /\ \A i, j \in S : Agree(TreeFeatures[i], TreeFeatures[j])}

\* the rules: the tree moved, copied, disabled, and a file rule
TreeRulePool ==
    { SidecarRule(Str("extras"), FALSE, TRUE, sMove, <<>>, Str("{base}.extras/**")),
      SidecarRule(Str("extras"), FALSE, TRUE, sCopy, <<>>, Str("{base}.extras/**")),
      SidecarRule(Str("extras"), FALSE, FALSE, sMove, <<>>, Str("{base}.extras/**")),
      SidecarRule(Str("lyrics"), FALSE, TRUE, sMove, <<>>, Str("{base}.lrc")) }

InitTree ==
    /\ \E S \in TreeFeatureSets :
          fs = WithAudio(TreeOverlay(BaseFs, S), P("/d/new.flac"))
    /\ srcAudio = P("/s/old.flac")
    /\ dstAudio = P("/d/new.flac")
    /\ fs0 = fs
    /\ rules \in RuleLists(TreeRulePool, MaxRules)
    /\ metadata = NoMetadata
    /\ conflict = "rename"
    /\ plan = Idle
    /\ ops = <<>>
    /\ idx = 0
    /\ resolved = <<>>
    /\ guarded = <<>>
    /\ exc = "none"
    /\ pc = "start"
    /\ raw = <<>>
    /\ loaded = NotLoaded
    /\ verdict = Ok
    /\ HookUnused
    /\ LinkUnused

SpecTree == InitTree /\ [][Next]_vars

\* the enabled tree rules of the run
TreeRules == {k \in 1..Len(rules) : rules[k].enabled /\ ~rules[k].embedded /\ IsTree(rules[k])}

\* the template of tree rule k: its mask without the "/**"
DirTemplate(k) ==
    SubSeq(NormalizeMask(rules[k].filemask), 1, Len(NormalizeMask(rules[k].filemask)) - 3)

\* where tree rule k looks, and where its tree goes
SrcTree(k) == PathJoin(Parent(srcAudio), Expand(DirTemplate(k), BaseNoExt(srcAudio)))

DstTree(k) == PathJoin(Parent(dstAudio), Expand(DirTemplate(k), BaseNoExt(dstAudio)))

\* the planned tree operations
TreeOps == {i \in 1..Len(ops) : ops[i].type = "tree"}

\* C26, planning: an enabled tree rule plans nothing when its directory does not exist
\* under the source directory, and otherwise exactly one TreeOp from that directory to
\* DstTree with the rule's mode and the given policy.
C26_OneTreeOpPerDirectory ==
    pc \in {"applying", "done", "raised"} =>
        \A k \in TreeRules :
            IF ~IsDir(fs0, SrcTree(k)) THEN TreeOps = {}
            ELSE /\ Cardinality(TreeOps) = 1
                 /\ \A i \in TreeOps :
                       ops[i] = TreeOp(ResolvePath(fs0, SrcTree(k)), DstTree(k),
                                       rules[k].move_mode, conflict)

\* the same for a rule whose path is a directory or missing altogether
TreeOpForDirectory ==
    pc \in {"applying", "done", "raised"} =>
        \A k \in TreeRules :
            IF ~LExists(fs0, SrcTree(k)) THEN TreeOps = {}
            ELSE IsDir(fs0, SrcTree(k)) =>
                 /\ Cardinality(TreeOps) = 1
                 /\ \A i \in TreeOps :
                       ops[i] = TreeOp(ResolvePath(fs0, SrcTree(k)), DstTree(k),
                                       rules[k].move_mode, conflict)

\* a tree operation in move mode that was applied and not skipped took the whole subtree
\* to where it was written: the source is gone and its entries are there
TreeMoved ==
    \A i \in TreeOps :
        (i <= idx /\ exc = "none" /\ ops[i].mode = sMove /\ ~resolved[i].skip
            /\ IsDir(fs0, ops[i].src)) =>
            /\ ~LExists(fs, ops[i].src)
            /\ \A p \in Below(fs0, ops[i].src) :
                  LET q == resolved[i].ret \o SubSeq(p, Len(ops[i].src) + 1, Len(p))
                  IN  q \in DOMAIN fs /\ fs[q] = fs0[p]

---------------------------------------------------------------------------
(* Properties of the order of a plan *)

\* what glob.glob finds for file rule k
GlobOf(k) ==
    Glob(fs0, PathJoin(Parent(srcAudio),
                       Expand(NormalizeMask(rules[k].filemask), BaseNoExt(srcAudio))))

\* how many operations rule k contributes
Count(k) ==
    IF k \in FileRules THEN Cardinality(GlobOf(k))
    ELSE IF k \in TreeRules /\ Exists(fs0, SrcTree(k)) THEN 1
    ELSE 0

\* how many operations the rules before rule k contribute
RECURSIVE Offset(_)
Offset(k) == IF k <= 1 THEN 0 ELSE Offset(k - 1) + Count(k - 1)

\* the position of match m among the matches of rule k in ascending order
Rank(k, m) == Cardinality({x \in GlobOf(k) : PathLess(x, m)}) + 1

\* C27: the plan is the operations of rule 1, then those of rule 2, and so on; a file
\* rule contributes one operation for each path its glob finds, in ascending order of
\* these paths, and a tree rule its one operation.
C27_RuleThenMatchOrder ==
    (pc \in {"applying", "done", "raised"}) =>
        /\ Len(ops) = Offset(Len(rules) + 1)
        /\ \A k \in FileRules : \A m \in GlobOf(k) :
              /\ ops[Offset(k) + Rank(k, m)].type = "file"
              /\ ops[Offset(k) + Rank(k, m)].src = ResolvePath(fs0, m)
              /\ ops[Offset(k) + Rank(k, m)].mode = rules[k].move_mode
        /\ \A k \in TreeRules :
              Count(k) = 1 => ops[Offset(k) + 1] = TreeOp(ResolvePath(fs0, SrcTree(k)), DstTree(k),
                                                          rules[k].move_mode, conflict)

\* a plan of two file rules: the first found two paths and its operations come first,
\* in ascending order, the operation of the second rule follows
C27_Witness ==
    /\ pc = "applying"
    /\ FileRules = {1, 2}
    /\ Len(ops) = 3
    /\ GlobOf(1) = {P("/s/old.lrc"), P("/s/oldy.lrc")}
    /\ GlobOf(2) = {P("/s/old.lrc")}

\* C28: every planned operation has its destination inside the directory of the
\* destination primary file.
C28_DestinationsInside ==
    (pc \in {"applying", "done", "raised"}) =>
        \A i \in 1..Len(ops) :
            IsPrefix(ResolvePath(fs0, Parent(dstAudio)), ResolvePath(fs0, ops[i].dst))

\* the same for the operations of file rules
FileDestinationsInside ==
    (pc \in {"applying", "done", "raised"}) =>
        \A i \in 1..Len(ops) :
            ops[i].type = "file" =>
                IsPrefix(ResolvePath(fs0, Parent(dstAudio)), ResolvePath(fs0, ops[i].dst))

\* C29: in a plan that plan_sidecar_ops returned, so that the rule set passed the static
\* and the per-file uniqueness checks, no two operations have the same source and no two
\* have the same destination.
C29_NoSharedSourceOrDestination ==
    (pc \in {"applying", "done", "raised"}) =>
        \A i, j \in 1..Len(ops) :
            i # j => ops[i].src # ops[j].src /\ ops[i].dst # ops[j].dst

---------------------------------------------------------------------------
(* attach_sidecars called twice with the same arguments *)

\* the second call, on the tree the first one left, when the first reported no error;
\* idx counts the calls that returned and guarded keeps the tree the first one left
AttachAgain ==
    /\ pc = "returned"
    /\ idx = 0
    /\ stats.errors = 0
    /\ pc' = "start"
    /\ idx' = 1
    /\ guarded' = fs
    /\ UNCHANGED <<fs, fs0, srcAudio, dstAudio, rules, metadata, conflict, plan, ops,
                   resolved, exc, raw, loaded, verdict, hookVars, linkVars>>

InitTwice == InitAttach \/ InitCover

NextTwice == AttachStart \/ AttachStep \/ AttachReturn \/ AttachAgain

SpecTwice == InitTwice /\ [][NextTwice]_vars

\* the second call has returned
SecondReturned == pc = "returned" /\ idx = 1

\* the second call created nothing and left the tree as the first call left it
NothingNew ==
    /\ stats.created_lyrics = 0
    /\ stats.created_covers = 0
    /\ fs = guarded

\* C30 as stated: a second call after a first call without errors creates nothing and
\* leaves the tree unchanged, for every link type and every conflict policy.
C30_Idempotent == SecondReturned => NothingNew

\* the first call put a link or a copy under a numbered name "<stem> (n)<ext>" next to a
\* path that was taken, which is what _resolve_conflict does under "rename"
FirstRunRenamed ==
    \E q \in DOMAIN guarded : \E n \in 1..(MaxAttachFeatures + 1) :
        LinkRenameCandidate(q, n) \in (DOMAIN guarded) \ (DOMAIN fs0)

\* the cases in which a second call finds every destination of the first call again as
\* the source itself: under "skip" always; with the default cover names under
\* "overwrite", and under "rename" when the first call numbered nothing
SecondCallFindsItsOwn ==
    \/ args.conflict = "skip"
    \/ /\ args.cover_candidates = CoverCandidates
       /\ (args.conflict = "overwrite" \/ ~FirstRunRenamed)

\* C30: a second call with the same arguments, after a first call without errors, creates
\* nothing (created_lyrics = 0 and created_covers = 0) and leaves the tree unchanged, for
\* every link type, under "skip", and with the default cover names also under "overwrite"
\* and under "rename" when the first call gave no numbered name.
C30_IdempotentWhenSourceFoundAgain ==
    (SecondReturned /\ SecondCallFindsItsOwn) => NothingNew

\* a second call returned with nothing new after a first call that had created a
\* sidecar, under "rename" without a numbered name
C30_Witness ==
    /\ SecondReturned
    /\ args.conflict = "rename"
    /\ ~FirstRunRenamed
    /\ guarded # fs0
    /\ NothingNew
===========================================================================
